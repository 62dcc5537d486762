------------------------------ MODULE Versions ------------------------------
(***************************************************************************)
(* What the command line keeps on disk: the state file of a job with its   *)
(* numbered versions (store/store.go) and the log of results per job       *)
(* (store/resultlog.go).  The state file is replaced through a temporary   *)
(* file and a rename; a version is written in place, under the number      *)
(* after the largest listed; the oldest versions are pruned.  The program  *)
(* may be killed between any two steps and inside any write, which then    *)
(* leaves a torn file, or a line without its end.                          *)
(***************************************************************************)
EXTENDS Integers, FiniteSets, Sequences, FiniteSetsExt, SequencesExt

CONSTANTS Snapshots,      \* the states worth telling apart
          Torn, Missing,  \* a file cut short, and no file
          KeepVersions,   \* maxVersions: 20 in the code
          Records,        \* the records of the result log
          MaxNumber,      \* bound: version numbers
          MaxCrashes      \* bound: kills

\* maxVersions is positive, and no state that is saved is a file cut short.
ASSUME FilesAssumption ==
    /\ KeepVersions \in Nat \ {0}
    /\ Torn \notin Snapshots /\ Missing \notin Snapshots /\ Torn # Missing

VARIABLES files,    \* the state file, its temporary file and its versions
          command,  \* the command that runs, and how far it is
          told,     \* the versions SaveVersion reported: number and state
          current,  \* the states a reader may expect in the state file
          lines,    \* the lines of the result log; TRUE for one that parses
          crashes
storeVars == <<files, command, told, current, lines, crashes>>

Idle == [op |-> "idle"]
Numbers == DOMAIN files.versions

VersionsInit ==
    /\ files = [state |-> Missing, tmp |-> Missing, versions |-> <<>>]
    /\ command = Idle /\ told = {} /\ current = {Missing}
    /\ lines = [whole |-> <<>>, open |-> FALSE, acked |-> {}] /\ crashes = 0

(* The number of the next version: after the listed ones, however many of  *)
(* them were pruned.                                                       *)
NextNumberByCount == Cardinality(Numbers) + 1   \* faulty variant: prunes are not counted
NextNumber ==
    LET listed == Numbers IN
    IF listed # {} /\ Max(listed) >= Cardinality(listed) + 1 THEN Max(listed) + 1
    ELSE Cardinality(listed) + 1

-----------------------------------------------------------------------------
(* SaveVersion and Revert share Save: write the temporary file, rename it. *)

SaveVersion(s) ==
    /\ command = Idle /\ NextNumber <= MaxNumber
    /\ command' = [op |-> "save", at |-> "tmp", snap |-> s]
    /\ UNCHANGED <<files, told, current, lines, crashes>>

(* Revert: LoadVersion first; one that is missing or does not parse is an  *)
(* error, and the state file is left alone.                                *)
Revert(n) ==
    /\ command = Idle /\ n \in Numbers /\ files.versions[n] # Torn
    /\ command' = [op |-> "revert", at |-> "tmp", snap |-> files.versions[n]]
    /\ UNCHANGED <<files, told, current, lines, crashes>>

WriteTmp ==
    /\ command # Idle /\ command.at = "tmp"
    /\ files' = [files EXCEPT !.tmp = command.snap]
    /\ command' = [command EXCEPT !.at = "rename"]
    /\ current' = current \cup {command.snap}
    /\ UNCHANGED <<told, lines, crashes>>

Rename ==
    /\ command # Idle /\ command.at = "rename"
    /\ files' = [files EXCEPT !.state = files.tmp, !.tmp = Missing]
    /\ command' = IF command.op = "revert" THEN Idle ELSE [command EXCEPT !.at = "version"]
    /\ current' = {command.snap}
    /\ UNCHANGED <<told, lines, crashes>>

WriteVersion ==
    /\ command # Idle /\ command.at = "version"
    /\ files' = [files EXCEPT !.versions = [n \in Numbers \cup {NextNumber} |->
                    IF n = NextNumber THEN command.snap ELSE @[n]]]
    /\ command' = [op |-> "save", at |-> "prune", snap |-> command.snap, number |-> NextNumber]
    /\ UNCHANGED <<told, current, lines, crashes>>

(* pruneVersions, and the number is reported                               *)
Oldest(k) == {n \in Numbers : Cardinality({m \in Numbers : m <= n}) <= k}

Prune ==
    /\ command # Idle /\ command.at = "prune"
    /\ files' = [files EXCEPT !.versions = [n \in Numbers \ Oldest(Cardinality(Numbers) - KeepVersions)
                                              |-> @[n]]]
    /\ told' = told \cup {<<command.number, command.snap>>}
    /\ command' = Idle
    /\ UNCHANGED <<current, lines, crashes>>

(* RetainVersions: those before a cutoff go, the newest never does.        *)
Retain(cutoff) ==
    /\ command = Idle /\ Numbers # {}
    /\ files' = [files EXCEPT !.versions = [n \in {n \in Numbers : n >= cutoff \/ n = Max(Numbers)}
                                              |-> @[n]]]
    /\ UNCHANGED <<command, told, current, lines, crashes>>

-----------------------------------------------------------------------------
(* ResultLog.  Append writes the records one line each; a line left open   *)
(* by a kill swallows the next record.                                     *)

Append1(r) ==
    /\ command = Idle /\ r \notin lines.acked
    /\ lines' = [whole |-> IF lines.open THEN lines.whole ELSE Append(lines.whole, r),
                 open |-> FALSE, acked |-> lines.acked \cup {r}]
    /\ UNCHANGED <<files, command, told, current, crashes>>

(* Query: the lines that parse, in the order they were written             *)
Query == lines.whole

-----------------------------------------------------------------------------
(* A kill: what is being written is torn, the rest of the command is not   *)
(* done, and a temporary file stays behind.                                *)
Kill ==
    /\ command # Idle /\ crashes < MaxCrashes
    /\ crashes' = crashes + 1 /\ command' = Idle
    /\ \/ UNCHANGED files
       \/ command.at = "tmp" /\ files' = [files EXCEPT !.tmp = Torn]
       \/ command.at = "version" /\
            files' = [files EXCEPT !.versions = [n \in Numbers \cup {NextNumber} |->
                         IF n = NextNumber THEN Torn ELSE @[n]]]
    /\ UNCHANGED <<told, current, lines>>

KillLog ==
    /\ command = Idle /\ crashes < MaxCrashes
    /\ crashes' = crashes + 1
    /\ lines' = [lines EXCEPT !.open = TRUE]
    /\ UNCHANGED <<files, command, told, current>>

VersionsNext ==
    \/ \E s \in Snapshots : SaveVersion(s)
    \/ \E n \in 1..MaxNumber : Revert(n)
    \/ WriteTmp \/ Rename \/ WriteVersion \/ Prune
    \/ \E n \in 1..MaxNumber : Retain(n)
    \/ \E r \in Records : Append1(r)
    \/ Kill \/ KillLog

-----------------------------------------------------------------------------
(* A number names one state for ever: whatever is killed, pruned, retained *)
(* or reverted, a version that is still listed and was reported holds the  *)
(* state it was reported with, one was reported at most once, the state    *)
(* file is never torn and holds what the last completed command put there  *)
(* (or what a killed one was putting), and the last version reported is    *)
(* there unless a torn one came after it.                                  *)
VersionsStand ==
    /\ \A v, w \in told : v[1] = w[1] => v = w
    /\ \A v \in told : v[1] \in Numbers => files.versions[v[1]] = v[2]
    /\ files.state \in current /\ files.state # Torn
    /\ \A v \in told : (\A w \in told : w[1] <= v[1]) /\ (\A n \in Numbers : n <= v[1])
                         => v[1] \in Numbers
    /\ command = Idle => Cardinality(Numbers) <= KeepVersions + crashes

(* The result log loses at most one acknowledged record for each kill, and *)
(* returns the others once each.                                           *)
LogKeepsRecords ==
    /\ Cardinality(lines.acked \ ToSet(Query)) <= crashes
    /\ IsInjective(Query) /\ ToSet(Query) \subseteq lines.acked
=============================================================================
