---------------------------- MODULE PatchInspection ----------------------------
(***************************************************************************)
(* How a patch is inspected between the agent's work and the push          *)
(* (inspect_diff, inspect_committed_diff and diff_gate of policy.py, and   *)
(* their callers in orchestrator.py and publisher.py), while the work tree *)
(* may change under it.                                                    *)
(*                                                                         *)
(* An inspection is a series of git commands and of looks at files, each a *)
(* moment of its own; what it finds is put together from them.  A file is  *)
(* its mode and its text; a text is known by its lines, its size and what  *)
(* the gate looks for in it.                                               *)
(***************************************************************************)
EXTENDS Naturals, FiniteSetsExt

CONSTANTS
  Paths,
  Base,               \* the files at base_sha
  Candidates,         \* Candidates[p]: what may become of p
  Lines, Bytes,       \* of a text
  ForbiddenPaths,     \* forbidden patterns, dependency manifests, odd names
  PolicyMaxFiles, PolicyMaxLines,
  RepositoryMaxFiles, RepositoryMaxLines,  \* 0: unset
  MaxPatchBytes,      \* policy.max_patch_bytes
  DefaultPatchBytes,  \* what inspect_diff takes when it is told no maximum
  MaxInspectedPaths,
  MaxRepairs,         \* agent.max_repair_cycles
  MaxDisturbances     \* bound: changes under the inspections

Absent == [mode |-> "none", text |-> "none"]
Files == (UNION {Candidates[p] : p \in Paths}) \cup {Base[p] : p \in Paths}

ASSUME PatchAssumption ==
  /\ IsFiniteSet(Paths) /\ Base \in [Paths -> Files]
  /\ {MaxInspectedPaths, MaxRepairs, MaxDisturbances} \subseteq Nat
  /\ PolicyMaxFiles \in 1 .. MaxInspectedPaths /\ PolicyMaxLines > 0
  /\ Lines["none"] = 0 /\ Bytes["none"] = 0
  /\ \A f \in Files : Bytes[f.text] \in Nat
  /\ \A p \in Paths : Base[p] \in Candidates[p] /\ Base[p].mode \in {"none", "100644"}

Nothing == [files |-> {}, lines |-> 0, patch |-> {}, truncated |-> FALSE, failures |-> {}]

VARIABLES
  pc,           \* what the inspection under way is for, or what comes next
  step,         \* its next read
  worktree,     \* the files
  unsafe,       \* the repository's Git configuration is unsafe
  disturbances, \* how often that happened
  repairs,      \* how often the agent was asked again
  tracked,      \* the paths in the index, the ones that are intended included
  staged,       \* the files that `git add -A' has been through, as it saw them
  head,         \* the files at HEAD
  untracked,    \* what this inspection found untracked
  seen,         \* what it has read so far
  diff,         \* the diff that passed the gate
  reviewed,     \* the patch that the reviewer was shown
  approval      \* the patch that the approval is bound to

outside == <<worktree, unsafe, disturbances>>
git == <<tracked, staged, head>>
verdicts == <<diff, reviewed, approval>>
inspectionVars == <<pc, step, outside, repairs, git, untracked, seen, verdicts>>

\* What the agent may leave.
Works == {w \in [Paths -> Files] : \A p \in Paths : w[p] \in Candidates[p]}

InspectionInit ==
  /\ pc = "gate" /\ step = "config"
  /\ worktree \in Works
  /\ unsafe = FALSE /\ disturbances = 0 /\ repairs = 0
  /\ tracked = {p \in Paths : Base[p] # Absent}
  /\ head = Base /\ staged = <<>>
  /\ untracked = {} /\ seen = Nothing
  /\ diff = Nothing /\ reviewed = {} /\ approval = {}

-------------------------------------------------------------------------------
\* What git says of two trees.

Changed(old, new, known) == {p \in known : old[p] # new[p]}

\* --numstat, a binary file counting as a million lines.
ChangedLines(old, new, paths) ==
  MapThenSumSet(LAMBDA p : Lines[old[p].text] + Lines[new[p].text], paths)

Patch(old, new, paths) == {[path |-> p, old |-> old[p], new |-> new[p]] : p \in paths}

\* Every byte of a patch, under its file's number for it.
BytesOf(h) == {h} \X (1 .. Bytes[h.old.text] + Bytes[h.new.text])
Size(patch) == Cardinality(UNION {BytesOf(h) : h \in patch})

\* A patch beyond the maximum is cut; two cut patches may be the same.
CutPatch == {[path |-> "cut", old |-> Absent, new |-> Absent]}
TooLarge(patch, maximum) == Size(patch) > maximum
Kept(patch, maximum) == IF TooLarge(patch, maximum) THEN CutPatch ELSE patch

\* _mode_failures().
ModeFails(old, new) ==
  \/ {"120000", "160000"} \cap {old, new} # {}
  \/ new \notin {"none", "100644", "100755"}
  \/ new = "100755" /\ old # "100755"
  \/ new = "100644" /\ old = "100755"

ModeFailures(old, new, paths) == {p \in paths : ModeFails(old[p].mode, new[p].mode)}

-------------------------------------------------------------------------------
\* The gate.

Tells(patch, mark) == \E h \in patch : mark \in {h.old.text, h.new.text}

NewMode(patch, mode) ==
  \E h \in patch : h.old.mode # h.new.mode /\ h.new.mode # "none" /\ mode \in {h.old.mode, h.new.mode}

\* The smaller limit, where the repository sets one.
Within(n, policy, repository) == n <= policy /\ (repository # 0 => n <= repository)

\* diff_gate().
Passes(d) ==
  /\ d.failures = {}
  /\ d.files # {} /\ d.files \cap ForbiddenPaths = {}
  /\ Within(Cardinality(d.files), PolicyMaxFiles, RepositoryMaxFiles)
  /\ Within(d.lines, PolicyMaxLines, RepositoryMaxLines)
  /\ ~d.truncated
  /\ \A mark \in {"invalid", "binary", "secret"} : ~Tells(d.patch, mark)
  /\ \A mode \in {"120000", "160000", "100755"} : ~NewMode(d.patch, mode)

-------------------------------------------------------------------------------
\* An inspection of the work tree, read by read.

Goto(p) == pc' = p /\ step' = "config" /\ untracked' = {} /\ seen' = Nothing

Reads(here, next) == step = here /\ step' = next /\ UNCHANGED pc

Refused == [Nothing EXCEPT !.failures = {"refused"}]

\* The orchestrator tells its maximum, the publisher does not.
Maximum == IF pc \in {"gate", "postcheck", "final"} THEN MaxPatchBytes ELSE DefaultPatchBytes

Inspecting == pc \in {"gate", "postcheck", "final", "validate", "clean", "recheck"}

\* unsafe_git_configuration(), and the untracked files.
ListUntracked ==
  /\ Inspecting /\ step = "config"
  /\ UNCHANGED <<pc, outside, repairs, git, verdicts>>
  /\ LET found == {p \in Paths \ tracked : worktree[p] # Absent} IN
       IF unsafe \/ Cardinality(found) > MaxInspectedPaths
       THEN step' = "found" /\ seen' = Refused /\ UNCHANGED untracked
       ELSE step' = "intend" /\ untracked' = found /\ UNCHANGED seen

\* Bug: new files are only listed, and `git diff' does not see them.
IntendNever ==
  /\ Inspecting /\ Reads("intend", "names")
  /\ UNCHANGED <<outside, repairs, git, untracked, seen, verdicts>>

\* git add -N, which fails when a file is gone.
Intend ==
  /\ Inspecting /\ step = "intend"
  /\ \/ /\ \A p \in untracked : worktree[p] # Absent
        /\ Reads("intend", "names") /\ tracked' = tracked \cup untracked
        /\ UNCHANGED <<untracked, seen>>
     \/ /\ \E p \in untracked : worktree[p] = Absent
        /\ Goto("refused") /\ UNCHANGED tracked
  /\ UNCHANGED <<outside, repairs, staged, head, verdicts>>

\* git diff --name-only.
ReadNames ==
  /\ Inspecting
  /\ LET files == Changed(head, worktree, tracked) IN
       IF Cardinality(files) > MaxInspectedPaths
       THEN Reads("names", "found") /\ seen' = Refused
       ELSE Reads("names", "numstat") /\ seen' = [seen EXCEPT !.files = files]
  /\ UNCHANGED <<outside, repairs, git, untracked, verdicts>>

\* git diff --numstat.
ReadNumstat ==
  /\ Inspecting /\ Reads("numstat", "patch")
  /\ seen' = [seen EXCEPT !.lines =
                ChangedLines(head, worktree, Changed(head, worktree, tracked))]
  /\ UNCHANGED <<outside, repairs, git, untracked, verdicts>>

\* git diff --binary.
ReadPatch ==
  /\ Inspecting /\ Reads("patch", "modes")
  /\ LET patch == Patch(head, worktree, Changed(head, worktree, tracked)) IN
       seen' = [seen EXCEPT !.patch = Kept(patch, Maximum), !.truncated = TooLarge(patch, Maximum)]
  /\ UNCHANGED <<outside, repairs, git, untracked, verdicts>>

\* The modes of the changed files, at HEAD and in the work tree.
ReadModes ==
  /\ Inspecting /\ Reads("modes", "found")
  /\ seen' = [seen EXCEPT !.failures = ModeFailures(head, worktree, seen.files)]
  /\ UNCHANGED <<outside, repairs, git, untracked, verdicts>>

\* inspect_committed_diff(): what it reads are commits, which nobody changes.
Committed(tree, maximum) ==
  LET files == Changed(Base, tree, Paths)
      patch == Patch(Base, tree, files)
  IN [files |-> files, lines |-> ChangedLines(Base, tree, files),
      patch |-> Kept(patch, maximum), truncated |-> TooLarge(patch, maximum),
      failures |-> ModeFailures(Base, tree, files)]

-------------------------------------------------------------------------------
\* What follows on each inspection.

Found(p) == pc = p /\ step = "found" /\ UNCHANGED <<outside, git, repairs>>

\* After the agent's work: the gate, then the tests.
Gate ==
  /\ Found("gate")
  /\ IF Passes(seen) THEN Goto("postcheck") /\ diff' = seen
     ELSE Goto("refused") /\ UNCHANGED diff
  /\ UNCHANGED <<reviewed, approval>>

\* The agent repairs its work, and the gate comes again.
Repair ==
  /\ repairs < MaxRepairs /\ repairs' = repairs + 1
  /\ worktree' \in Works /\ UNCHANGED <<unsafe, disturbances>>
  /\ Goto("gate")

\* After the tests: the gate again, and the same diff; then the review, which is
\* shown the patch, or a repair when the tests failed.
PostCheck ==
  /\ pc = "postcheck" /\ step = "found"
  /\ IF Passes(seen) /\ seen = diff
     THEN \/ Goto("review") /\ reviewed' = diff.patch /\ UNCHANGED <<outside, repairs>>
          \/ Repair /\ UNCHANGED reviewed
     ELSE Goto("refused") /\ UNCHANGED <<outside, repairs, reviewed>>
  /\ UNCHANGED <<git, diff, approval>>

\* The review approves, or asks for a repair.
Review ==
  /\ pc = "review"
  /\ \/ Goto("final") /\ UNCHANGED <<outside, repairs>>
     \/ Repair
  /\ UNCHANGED <<git, verdicts>>

\* Bug: the approval is bound to whatever the work tree holds by now.
FinalCheckUncompared ==
  /\ Found("final")
  /\ Goto("validate") /\ approval' = seen.patch /\ diff' = seen
  /\ UNCHANGED reviewed

\* After the review: the same diff, to which the approval is bound.
FinalCheck ==
  /\ Found("final")
  /\ IF seen = diff THEN Goto("validate") /\ approval' = diff.patch
     ELSE Goto("refused") /\ UNCHANGED approval
  /\ UNCHANGED <<diff, reviewed>>

\* validate_approval(): the patch has the approved digest.
Validate ==
  /\ Found("validate")
  /\ IF seen.patch = approval THEN Goto("publish") ELSE Goto("refused")
  /\ UNCHANGED verdicts

\* The publisher starts, unless the configuration is unsafe.
Publish ==
  /\ pc = "publish"
  /\ IF unsafe THEN Goto("refused") ELSE Goto("add")
  /\ UNCHANGED <<outside, repairs, git, verdicts>>

\* git add -A, file by file.
AddFile(p) ==
  /\ pc = "add" /\ p \notin DOMAIN staged
  /\ staged' = [q \in DOMAIN staged \cup {p} |-> IF q = p THEN worktree[p] ELSE staged[q]]
  /\ UNCHANGED <<pc, step, outside, repairs, tracked, head, untracked, seen, verdicts>>

\* git commit, which refuses an empty one, and the committed diff, which must
\* be the approved one in every part.
Commit ==
  /\ pc = "add" /\ DOMAIN staged = Paths
  /\ head' = staged /\ tracked' = {p \in Paths : staged[p] # Absent} /\ staged' = <<>>
  /\ IF staged # Base /\ ~unsafe /\ Committed(staged, Size(diff.patch)) = diff
     THEN Goto("clean") ELSE Goto("refused")
  /\ UNCHANGED <<outside, repairs, verdicts>>

\* The work tree has no changes beyond the commit, as far as it could be
\* inspected.
Clean ==
  /\ Found("clean")
  /\ IF seen.files = {} THEN Goto("approved") ELSE Goto("refused")
  /\ UNCHANGED verdicts

\* validate_committed_approval() before a remote write: once more the patch that
\* was committed ...
RecheckCommit ==
  /\ pc = "approved"
  /\ IF ~unsafe /\ Committed(head, Size(diff.patch)).patch = approval
     THEN Goto("recheck") ELSE Goto("refused")
  /\ UNCHANGED <<outside, repairs, git, verdicts>>

\* ... and the work tree.  Then HEAD is pushed.
RecheckClean ==
  /\ Found("recheck")
  /\ IF seen.files = {} THEN Goto("pushed") ELSE Goto("refused")
  /\ UNCHANGED verdicts

\* A setup or test command, or anything else, changes a file or the
\* configuration, between any two steps.
Disturb ==
  /\ pc \notin {"pushed", "refused"}
  /\ disturbances < MaxDisturbances /\ disturbances' = disturbances + 1
  /\ \/ /\ \E p \in Paths : \E f \in Candidates[p] \ {worktree[p]} :
             worktree' = [worktree EXCEPT ![p] = f]
        /\ UNCHANGED unsafe
     \/ unsafe' = ~unsafe /\ UNCHANGED worktree
  /\ UNCHANGED <<pc, step, repairs, git, untracked, seen, verdicts>>

Inspection ==
  \/ ListUntracked \/ Intend \/ ReadNames \/ ReadNumstat \/ ReadPatch \/ ReadModes

InspectionNext ==
  \/ Inspection \/ Gate \/ PostCheck \/ Review \/ FinalCheck \/ Validate \/ Publish
  \/ (\E p \in Paths : AddFile(p)) \/ Commit \/ Clean \/ RecheckCommit \/ RecheckClean \/ Disturb

InspectionSpec == InspectionInit /\ [][InspectionNext]_inspectionVars

-------------------------------------------------------------------------------
\* Properties.

InspectionTypeOK ==
  /\ pc \in {"gate", "postcheck", "review", "final", "validate", "publish", "add",
            "clean", "approved", "recheck", "pushed", "refused"}
  /\ step \in {"config", "intend", "names", "numstat", "patch", "modes", "found"}
  /\ worktree \in [Paths -> Files] /\ head \in [Paths -> Files]
  /\ unsafe \in BOOLEAN /\ disturbances \in 0 .. MaxDisturbances /\ repairs \in 0 .. MaxRepairs
  /\ tracked \subseteq Paths /\ untracked \subseteq Paths /\ DOMAIN staged \subseteq Paths

\* The rules for a patch, said of the two trees: some files change, few, none of
\* them forbidden; all are plain text files before and after, or are not there;
\* nothing in them looks like a credential.
Acceptable(old, new) ==
  LET changed == {p \in Paths : old[p] # new[p]}
      after == {new[p] : p \in changed}
      texts == {f.text : f \in after \cup {old[p] : p \in changed}}
  IN /\ changed # {} /\ changed \cap ForbiddenPaths = {}
     /\ \A limit \in {PolicyMaxFiles, RepositoryMaxFiles} \ {0} : Cardinality(changed) <= limit
     /\ \A limit \in {PolicyMaxLines, RepositoryMaxLines} \ {0} :
          ChangedLines(old, new, changed) <= limit
     /\ ~TooLarge(Patch(old, new, changed), MaxPatchBytes)
     /\ {f.mode : f \in after} \subseteq {"none", "100644"}
     /\ texts \cap {"invalid", "binary", "secret"} = {}

\* What is pushed is, file by file, the patch that the reviewer was shown, and
\* it obeys the rules, although each inspection was put together from reads of
\* a work tree that may have changed between any two of them (SECURITY.md:28:
\* "the committed base_sha..HEAD diff must exactly equal the frozen approved
\* patch before any remote mutation").
PushedIsReviewed ==
  pc = "pushed" =>
    /\ Patch(Base, head, {p \in Paths : Base[p] # head[p]}) = reviewed
    /\ Acceptable(Base, head)

\* Work that obeys the rules and that nothing disturbs passes every inspection,
\* of the work tree and of the commit; the publisher's own maximum must be as
\* large as the patch.
GoodWorkPasses ==
  pc = "refused" /\ disturbances = 0 =>
    \/ ~Acceptable(Base, worktree)
    \/ TooLarge(Patch(Base, worktree, {p \in Paths : Base[p] # worktree[p]}), DefaultPatchBytes)
===============================================================================
