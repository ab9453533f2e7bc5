---------------------------- MODULE Remediation ----------------------------
(***************************************************************************)
(* security_remediation.py: SecurityRemediator rewrites Rust sources in   *)
(* four passes (fix_test_bypasses, fix_mock_implementations,              *)
(* fix_unwrap_calls, add_input_validation), copying each file into        *)
(* .security_backup_<YYYYmmdd_HHMMSS>/ before it touches it.              *)
(*                                                                         *)
(* Lines are named as in RustAudit; the remediator also writes            *)
(*   "gen"  ConsensusProof::generate_from_network(&node_id).await?        *)
(*   "cfg"  #[cfg(test)]         "q"  the unwrap line with ? instead      *)
(*   "modopen", "use", "end"  mod test_providers {, use super::*;, }      *)
(*   "pubmod", "valmod"       pub mod <x>;, pub mod validation;           *)
(* A run may be killed between any two steps, and open(path, 'w')        *)
(* truncates before it writes, so a kill inside a write leaves the file   *)
(* empty.  The clock has one-second resolution, as the directory name.    *)
(***************************************************************************)
EXTENDS Integers, Sequences, SequencesExt, FiniteSets

CONSTANTS
    Files, Absent, NoBackup,
    BypassList,     \* files_to_fix of fix_test_bypasses, in order
    UnwrapList,     \* critical_files of fix_unwrap_calls, in order
    CaesarFile,     \* caesar/src/crypto_exchange_providers.rs
    LibFile,        \* trustchain/src/lib.rs
    ValidationFile, \* trustchain/src/validation.rs
    InitContent,    \* InitContent[f]: contents f may have before any run
    Seconds,        \* the values datetime.now() may show, in seconds
    MaxRuns,        \* remediator runs explored
    Kills           \* {FALSE}, or {FALSE, TRUE} when the process may be killed

\* The file add_input_validation writes: validators, the unwrap in
\* validate_node_id, then the test module with its "../../etc/passwd" case.
ValidationCode == <<"v_validators", "v_re_unwrap", "cfg", "v_modtests",
                    "testattr", "v_traversal", "end">>

VARIABLES
    tree,     \* tree[f]: the lines of file f, or Absent
    backups,  \* backups[s][f]: the copy of f in .security_backup_<s>/, or NoBackup
    now,      \* the second the current run's backup directory is named after
    pc,       \* the remediator's next step
    runs,     \* runs started so far
    start,    \* the tree when the current run started
    orig      \* the tree before any run

vars == <<tree, backups, now, pc, runs, start, orig>>

RECURSIVE TreesOf(_)
TreesOf(S) ==
    IF S = {} THEN {[f \in {} |-> Absent]}
    ELSE LET f == CHOOSE g \in S : TRUE
         IN  {[g \in S |-> IF g = f THEN c ELSE rest[g]] :
                c \in InitContent[f], rest \in TreesOf(S \ {f})}

FirstIdx(c, t) == SelectInSeq(c, LAMBDA l : l = t)

-----------------------------------------------------------------------------
(* The rewrites, as functions of a file's lines.                           *)

\* Mutant: re.sub(..., count=1) replaces only the first call.
BypassFixFirstOnly(c) ==
    LET i == FirstIdx(c, "call")
        r == IF i = 0 THEN c ELSE [c EXCEPT ![i] = "gen"]
    IN  FlattenSeq([j \in 1..Len(r) |->
            IF r[j] = "def" /\ j > 1 THEN <<"cfg", "def">> ELSE <<r[j]>>])

\* fix_test_bypasses: every call becomes generate_from_network; every
\* "pub fn default_for_testing()" preceded by a newline gets #[cfg(test)]
\* on the line above it (the regex needs the '\n', so line 1 is left alone).
BypassFix(c) ==
    LET r == ReplaceAll(c, "call", "gen")
    IN  FlattenSeq([j \in 1..Len(r) |->
            IF r[j] = "def" /\ j > 1 THEN <<"cfg", "def">> ELSE <<r[j]>>])

\* fix_mock_implementations' cut: mock_start is the doc comment (skipped
\* when it is at offset 0), impl_end the first "}" line after the impl.
MockStart(c) == FirstIdx(c, "mockdoc")
ImplEnd(c) ==
    LET mi == FirstIdx(c, "mockimpl")
    IN  IF mi = 0 THEN 0 ELSE SelectInSubSeq(c, mi + 1, Len(c), LAMBDA l : l = "end")
MockMovable(c) ==
    /\ \E i \in 1..Len(c) : c[i] = "mockstruct"
    /\ MockStart(c) > 1
    /\ ImplEnd(c) > 0

\* Mutant: the block is appended to the test module but not cut.
MockFixCopy(c) ==
    c \o <<"cfg", "modopen", "use">> \o SubSeq(c, MockStart(c), ImplEnd(c)) \o <<"end">>

MockFix(c) ==
    SubSeq(c, 1, MockStart(c) - 1) \o SubSeq(c, ImplEnd(c) + 1, Len(c))
    \o <<"cfg", "modopen", "use">> \o SubSeq(c, MockStart(c), ImplEnd(c)) \o <<"end">>

\* fix_unwrap_calls: ".unwrap();" becomes "?;" on lines without #[test].
UnwrapFix(c) == ReplaceAll(c, "unwrap", "q")

\* add_input_validation's edit of lib.rs: after the first 'pub mod ' line,
\* unless it is at offset 0 or validation is already declared.
LibFix(c) ==
    LET k == FirstIdx(c, "pubmod")
    IN  IF FirstIdx(c, "valmod") = 0 /\ k > 1 THEN InsertAt(c, k + 1, "valmod") ELSE c

-----------------------------------------------------------------------------
Init ==
    /\ tree \in TreesOf(Files)
    /\ backups = [s \in Seconds |-> [f \in Files |-> NoBackup]]
    /\ now = CHOOSE s \in Seconds : \A t \in Seconds : s <= t
    /\ pc = [step |-> "idle", k |-> 0]
    /\ runs = 0
    /\ start = tree
    /\ orig = tree

\* backup_file: shutil.copy2 into the current run's directory.
Backup(f) == [backups EXCEPT ![now][f] = tree[f]]

\* Write new lines to f; a kill inside the write (torn) leaves it truncated
\* and ends the run.
WriteOrTear(f, new, next, torn) ==
    /\ tree' = [tree EXCEPT ![f] = IF torn THEN <<>> ELSE new]
    /\ pc' = IF torn THEN [step |-> "idle", k |-> 0] ELSE next

\* SecurityRemediator(): the backup directory is named after the current
\* second; mkdir(exist_ok=True) reuses it when that second repeats.
StartRun ==
    /\ pc.step \in {"idle", "done"}
    /\ runs < MaxRuns
    /\ \E s \in Seconds : s >= now /\ now' = s
    /\ pc' = [step |-> "bypass", k |-> 1]
    /\ runs' = runs + 1
    /\ start' = tree
    /\ UNCHANGED <<tree, backups, orig>>

\* Mutant: the loop index runs one past the end of files_to_fix.
FixTestBypassesPastEnd ==
    /\ pc.step = "bypass"
    /\ LET f == BypassList[pc.k]
           new == BypassFix(tree[f])
           next == IF pc.k <= Len(BypassList) THEN [step |-> "bypass", k |-> pc.k + 1]
                   ELSE [step |-> "mock", k |-> 0]
       IN  \/ tree[f] = Absent /\ pc' = next /\ UNCHANGED <<tree, backups>>
           \/ /\ tree[f] /= Absent
              /\ backups' = Backup(f)
              /\ \/ new = tree[f] /\ pc' = next /\ UNCHANGED tree
                 \/ new /= tree[f] /\ \E torn \in Kills : WriteOrTear(f, new, next, torn)
    /\ UNCHANGED <<now, runs, start, orig>>

\* One iteration of fix_test_bypasses' loop over files_to_fix: a missing
\* file is skipped; an existing one is backed up, rewritten in memory, and
\* written back only if it changed.
FixTestBypasses ==
    /\ pc.step = "bypass"
    /\ LET f == BypassList[pc.k]
           new == BypassFix(tree[f])
           next == IF pc.k < Len(BypassList) THEN [step |-> "bypass", k |-> pc.k + 1]
                   ELSE [step |-> "mock", k |-> 0]
       IN  \/ tree[f] = Absent /\ pc' = next /\ UNCHANGED <<tree, backups>>
           \/ /\ tree[f] /= Absent
              /\ backups' = Backup(f)
              /\ \/ new = tree[f] /\ pc' = next /\ UNCHANGED tree
                 \/ new /= tree[f] /\ \E torn \in Kills : WriteOrTear(f, new, next, torn)
    /\ UNCHANGED <<now, runs, start, orig>>

\* fix_mock_implementations: back the Caesar file up, then move the mock
\* provider into a #[cfg(test)] module when all three finds succeed.
FixMockImplementations ==
    /\ pc.step = "mock"
    /\ LET f == CaesarFile
           next == [step |-> "unwrap", k |-> 1]
       IN  \/ tree[f] = Absent /\ pc' = next /\ UNCHANGED <<tree, backups>>
           \/ /\ tree[f] /= Absent
              /\ backups' = Backup(f)
              /\ \/ ~MockMovable(tree[f]) /\ pc' = next /\ UNCHANGED tree
                 \/ MockMovable(tree[f]) /\ \E torn \in Kills : WriteOrTear(f, MockFix(tree[f]), next, torn)
    /\ UNCHANGED <<now, runs, start, orig>>

\* One iteration of fix_unwrap_calls' loop over critical_files.
FixUnwrapCalls ==
    /\ pc.step = "unwrap"
    /\ LET f == UnwrapList[pc.k]
           new == UnwrapFix(tree[f])
           next == IF pc.k < Len(UnwrapList) THEN [step |-> "unwrap", k |-> pc.k + 1]
                   ELSE [step |-> "validation", k |-> 0]
       IN  \/ tree[f] = Absent /\ pc' = next /\ UNCHANGED <<tree, backups>>
           \/ /\ tree[f] /= Absent
              /\ backups' = Backup(f)
              /\ \/ new = tree[f] /\ pc' = next /\ UNCHANGED tree
                 \/ new /= tree[f] /\ \E torn \in Kills : WriteOrTear(f, new, next, torn)
    /\ UNCHANGED <<now, runs, start, orig>>

\* add_input_validation, then generate_report (which only prints): write
\* validation.rs with no backup, then declare it in lib.rs with no backup.
AddInputValidation ==
    /\ pc.step = "validation"
    /\ LET lib == IF tree[LibFile] = Absent THEN Absent ELSE LibFix(tree[LibFile])
           written == [tree EXCEPT ![ValidationFile] = ValidationCode, ![LibFile] = lib]
       IN  \/ /\ tree' = written
              /\ pc' = [step |-> "done", k |-> 0]
           \/ /\ TRUE \in Kills
              /\ tree' = [tree EXCEPT ![ValidationFile] = <<>>]
              /\ pc' = [step |-> "idle", k |-> 0]
           \/ /\ TRUE \in Kills /\ lib /= tree[LibFile]
              /\ tree' = [written EXCEPT ![LibFile] = <<>>]
              /\ pc' = [step |-> "idle", k |-> 0]
    /\ UNCHANGED <<backups, now, runs, start, orig>>

\* The process is killed between two steps.
Kill ==
    /\ TRUE \in Kills
    /\ pc.step \notin {"idle", "done"}
    /\ pc' = [step |-> "idle", k |-> 0]
    /\ UNCHANGED <<tree, backups, now, runs, start, orig>>

Next ==
    \/ StartRun \/ FixTestBypasses \/ FixMockImplementations
    \/ FixUnwrapCalls \/ AddInputValidation \/ Kill

Spec == Init /\ [][Next]_vars

-----------------------------------------------------------------------------
Contents == Seq(STRING) \cup {Absent}

TypeOK ==
    /\ tree \in [Files -> Contents]
    /\ backups \in [Seconds -> [Files -> Seq(STRING) \cup {NoBackup}]]
    /\ now \in Seconds
    /\ pc \in [step : {"idle", "mock", "validation", "done"}, k : {0}]
              \cup [step : {"bypass"}, k : 1..Len(BypassList)]
              \cup [step : {"unwrap"}, k : 1..Len(UnwrapList)]
    /\ runs \in 0..MaxRuns
=============================================================================
