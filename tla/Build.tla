------------------------------- MODULE Build -------------------------------
(* build.sh and build_release.sh, for one project: for each compiler make   *)
(* sure of the libraries, remove the build tree, configure, build.  The     *)
(* scripts break off at the first command that fails (set -e), and between  *)
(* two calls the sources may change.                                        *)
EXTENDS Naturals, Sequences, SequencesExt

CONSTANTS BuildOrder,   \* the compilers, in the order they are built for
          MaxSource     \* bound on the versions of the sources

VARIABLES
  source,       \* the version of the sources
  todo,         \* compilers the running build_release.sh still builds for
  tree,         \* the compiler whose tree is being built, or "none"
  library,      \* library[c]: the installed libraries for c: "none",
                \*   "partial" (passes the check of the script), "whole"
  executables   \* executables[c]: the sources its tcpserver and bench_tcp
                \*   were linked from, 0 if the file is not there

buildVars == <<source, todo, tree, library, executables>>

Targets == {"server", "bench"}
Missing == [t \in Targets |-> 0]

\* Either nothing was ever built, or the first sources were.
Init ==
  /\ source = 1 /\ todo = <<>> /\ tree = "none"
  /\ \/ /\ library = [c \in ToSet(BuildOrder) |-> "none"]
        /\ executables = [c \in ToSet(BuildOrder) |-> Missing]
     \/ /\ library = [c \in ToSet(BuildOrder) |-> "whole"]
        /\ executables = [c \in ToSet(BuildOrder) |-> [t \in Targets |-> source]]

Building == todo # <<>>

\* build_project: the script of this project is called, with new sources; or
\* build.sh broke off before it came to this project.
build_project ==
  /\ ~Building /\ source < MaxSource
  /\ source' = source + 1
  /\ todo' = BuildOrder \/ UNCHANGED todo
  /\ UNCHANGED <<tree, library, executables>>

\* ensure_taps_*_install and ensure_benchmark_install: an install that looks
\* complete is used as it is; another one is made, or breaks off.
ensure_installs ==
  /\ Building /\ tree = "none"
  /\ LET c == Head(todo)
     IN  /\ library[c] = "none"
         /\ \E now \in {"none", "partial", "whole"} :
              /\ library' = [library EXCEPT ![c] = now]
              /\ todo' = IF now = "whole" THEN todo ELSE <<>>
  /\ UNCHANGED <<source, tree, executables>>

\* What a new build starts from.  Seeded bug: the old tree is not removed.
Removed_Kept(c) == executables[c]
Removed(c) == Missing

\* build_one up to the build itself: check the compiler, rm -rf, configure.
build_one ==
  /\ Building /\ tree = "none" /\ library[Head(todo)] # "none"
  /\ tree' = Head(todo)
  /\ executables' = [executables EXCEPT ![Head(todo)] = Removed(Head(todo))]
  /\ UNCHANGED <<source, todo, library>>

\* cmake --build -j links one target, if it finds all it needs.
Link(t) ==
  /\ tree # "none" /\ library[tree] = "whole"
  /\ executables[tree][t] # source
  /\ executables' = [executables EXCEPT ![tree][t] = source]
  /\ UNCHANGED <<source, todo, tree, library>>

\* It has linked all of them, and the next compiler follows.
TreeDone ==
  /\ tree # "none" /\ \A t \in Targets : executables[tree][t] = source
  /\ tree' = "none" /\ todo' = Tail(todo)
  /\ UNCHANGED <<source, library, executables>>

\* A command fails, or the user interrupts: set -e ends all the scripts.
BuildBreaksOff ==
  /\ Building /\ todo' = <<>> /\ tree' = "none"
  /\ UNCHANGED <<source, library, executables>>

Next == \/ build_project \/ ensure_installs \/ build_one
        \/ \E t \in Targets : Link(t)
        \/ TreeDone \/ BuildBreaksOff

\* A build that was started ends, one way or the other.
Fairness == WF_buildVars(ensure_installs \/ build_one \/ TreeDone \/ BuildBreaksOff)

Spec == Init /\ [][Next]_buildVars /\ Fairness
=============================================================================
