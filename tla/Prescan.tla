------------------------------- MODULE Prescan -------------------------------
(* What is read of a configuration before it is run (luaa.c): the walk over     *)
(* the files it requires, at each start, which warns of what may hang without   *)
(* X11, and for somewm --check, which reports all there is and exits by it.     *)
(*                                                                              *)
(* A configuration is, of each file, the modules it requires in order: files of *)
(* its own directory, a library's, or one that is nowhere.  What is in a file   *)
(* is a list of the places where a pattern matches; one in a comment or on a    *)
(* line that says somewm:ignore is muted.                                       *)
EXTENDS Integers, Sequences, SequencesExt, FiniteSets

CONSTANTS ConfigFile, Rc,
          Nowhere, Library,    \* modules that are not the configuration's
          Requires,            \* the configurations
          Matches,             \* of each file, its places: [line, what, severity, muted]
          Broken,              \* files that are no Lua
          Skipped,             \* files that are empty or too large
          MaxChain,            \* PRESCAN_MAX_DEPTH
          MaxFiles,            \* PRESCAN_MAX_FILES
          MaxIssues            \* CHECK_MAX_ISSUES

VARIABLES
    requires,   \* the configuration
    walking,    \* "boot", "check", or none
    chain,      \* the files that are being read, each required by the one before
    visited,    \* prescan_visited
    read,       \* the files that were read, in order, by each of the two
    cut,        \* the walks that left out what is beyond MaxChain
    fallback,   \* globalconf.x11_fallback: the first place found
    issues,     \* check_issues
    exit        \* what --check exits with
prescanVars == <<requires, walking, chain, visited, read, cut, fallback, issues, exit>>

NotWalking     == "none"
Info     == 0
Warning  == 1
Critical == 2

Shown(f)      == SelectSeq(Matches[f], LAMBDA p : ~p.muted)
Issue(f, p)   == [file |-> f, line |-> p.line, what |-> p.what, severity |-> p.severity]

(* prescan_resolve_module() and prescan_module_is_config_local().                 *)
Found(m)   == m # Nowhere
IsLocal(m) == m \in ConfigFile

(* check_mode_add_issue(): each once.  The others are added as they come.         *)
Added(list, i) == IF Len(list) < MaxIssues THEN Append(list, i) ELSE list
check_mode_add_issue(list, i) == IF i \in ToSet(list) THEN list ELSE Added(list, i)
SyntaxError(f) == Issue(f, [line |-> 0, what |-> "syntax", severity |-> Critical])
Missing(f, at) == Issue(f, [line |-> at, what |-> "missing", severity |-> Warning])
Lint(s)        == Issue(Rc, [line |-> 0, what |-> "luacheck", severity |-> s])

check_mode_syntax_check(list, f) == IF f \in Broken THEN Added(list, SyntaxError(f)) ELSE list

Blank == [f \in ConfigFile |-> <<>>]
PrescanInit ==
    /\ requires = Blank
    /\ walking = NotWalking /\ chain = <<>> /\ visited = <<>> /\ cut = {}
    /\ read = [boot |-> <<>>, check |-> <<>>]
    /\ fallback = <<>> /\ issues = <<>> /\ exit = <<>>

-----------------------------------------------------------------------------
prescan_mark_visited(f) == IF Len(visited) < MaxFiles THEN Append(visited, f) ELSE visited

(* luaA_prescan_file() and check_mode_scan_file(): a file, unless it is too deep   *)
(* or was read before.  One that is skipped has no places and requires nothing.    *)
Reads(mode, f, rest) ==
    /\ chain' = Append(rest, [file |-> f,
                              next |-> IF f \in Skipped THEN Len(requires[f]) + 1 ELSE 1])
    /\ visited' = prescan_mark_visited(f) /\ read' = [read EXCEPT ![mode] = Append(@, f)]
    /\ LET places == IF f \in Skipped THEN <<>> ELSE Shown(f)
       IN /\ fallback' = IF mode = "boot" /\ fallback = <<>> /\ places # <<>>
                         THEN <<Issue(f, places[1])>> ELSE fallback
          /\ issues' = IF mode = "boot" THEN issues
                       ELSE FoldLeft(LAMBDA l, p : check_mode_add_issue(l, Issue(f, p)),
                                     check_mode_syntax_check(issues, f), places)
    /\ UNCHANGED cut
Enter(mode, f, rest) ==
    IF Len(rest) >= MaxChain \/ f \in ToSet(visited)
    THEN /\ chain' = rest /\ cut' = IF Len(rest) >= MaxChain THEN cut \cup {mode} ELSE cut
         /\ UNCHANGED <<visited, read, fallback, issues>>
    ELSE Reads(mode, f, rest)

(* The user writes it. *)
Write ==
    /\ requires = Blank /\ read = [boot |-> <<>>, check |-> <<>>] /\ walking = NotWalking
    /\ requires' \in Requires
    /\ UNCHANGED <<walking, chain, visited, read, cut, fallback, issues, exit>>

(* luaA_prescan_config() and luaA_check_config(). *)
Scan(mode) ==
    /\ requires # Blank /\ walking = NotWalking /\ read[mode] = <<>>
    /\ walking' = mode
    /\ chain' = <<[file |-> Rc, next |-> 0]>> /\ visited' = <<>>
    /\ UNCHANGED <<requires, read, cut, fallback, issues, exit>>

(* luaA_prescan_requires() and check_mode_scan_requires(): the next require.       *)
Current  == chain[Len(chain)]
Step ==
    /\ walking # NotWalking /\ chain # <<>>
    /\ LET e == Current
           m == requires[e.file][e.next]
           rest == [chain EXCEPT ![Len(chain)].next = @ + 1]
       IN IF e.next = 0 THEN Enter(walking, e.file, <<>>)
          ELSE IF e.next > Len(requires[e.file])
          THEN /\ chain' = Front(chain)
               /\ UNCHANGED <<visited, read, cut, fallback, issues>>
          ELSE IF Found(m) /\ IsLocal(m) THEN Enter(walking, m, rest)
          ELSE /\ chain' = rest
               /\ issues' = IF walking = "check" /\ ~Found(m)
                            THEN Added(issues, Missing(e.file, e.next)) ELSE issues
               /\ UNCHANGED <<visited, read, cut, fallback>>
    /\ UNCHANGED <<requires, walking, exit>>

EndBoot ==
    /\ walking = "boot" /\ chain = <<>> /\ walking' = NotWalking
    /\ UNCHANGED <<requires, chain, visited, read, cut, fallback, issues, exit>>

(* luacheck looks at the first file only, where it is installed; then the report,  *)
(* and the exit code, which the least severity that matters filters.               *)
ExitCode(all, least) ==
    LET has(s)  == \E i \in all : i.severity = s
        highest == IF has(Critical) THEN Critical ELSE IF has(Warning) THEN Warning
                   ELSE IF has(Info) THEN Info ELSE -1
    IN IF highest < least \/ highest < 0 THEN 0 ELSE IF highest = Critical THEN 2 ELSE 1
EndCheck(lints, least) ==
    /\ walking = "check" /\ chain = <<>> /\ walking' = NotWalking
    /\ issues' = FoldLeft(LAMBDA l, s : Added(l, Lint(s)), issues, lints)
    /\ exit' = <<[least |-> least, lints |-> lints, code |-> ExitCode(ToSet(issues'), least)]>>
    /\ UNCHANGED <<requires, chain, visited, read, cut, fallback>>

PrescanNext ==
    \/ \E mode \in {"boot", "check"} : Scan(mode)
    \/ Write \/ Step \/ EndBoot
    \/ \E lints \in {<<>>, <<Warning>>, <<Warning, Critical>>}, least \in Info..Critical :
           EndCheck(lints, least)
-----------------------------------------------------------------------------
PrescanTypeOK ==
    /\ requires \in Requires \cup {Blank} /\ walking \in {NotWalking, "boot", "check"}
    /\ cut \subseteq {"boot", "check"}
    /\ \A i \in DOMAIN chain : chain[i].file \in ConfigFile /\ chain[i].next \in Nat
    /\ Len(chain) <= MaxChain /\ Len(visited) <= MaxFiles /\ Len(issues) <= MaxIssues
    /\ ToSet(visited) \cup ToSet(read.boot) \cup ToSet(read.check) \subseteq ConfigFile

HasRead(mode) == walking # mode /\ read[mode] # <<>>

(* The files that running the configuration would load, and the least chain of     *)
(* requires to each.                                                               *)
Nearer(s) == s \cup UNION {{m \in ToSet(requires[f]) : IsLocal(m)} : f \in s \ Skipped}
Loaded == FoldLeft(LAMBDA s, i : Nearer(s), {Rc}, SetToSeq(ConfigFile))

(* luaa.c:4108, "scans config and all required files": each file that would be     *)
(* loaded is read, once, and no other, unless a chain was too long to follow.       *)
WholeConfigIsRead ==
    \A mode \in {"boot", "check"} :
        /\ IsInjective(read[mode]) /\ ToSet(read[mode]) \subseteq Loaded
        /\ HasRead(mode) /\ mode \notin cut => ToSet(read[mode]) = Loaded

(* luaa.c:3810, "The boot pre-scan and --check both resolve through it, so they     *)
(* walk the same set of files."                                                     *)
BothReadTheSame == HasRead("boot") /\ HasRead("check") => read.boot = read.check

(* --check reports each thing that is wrong once, and exits by the worst of them;   *)
(* the warning at the start is of the first of the places.                          *)
AllIsReported ==
    LET places(f) == IF f \in Skipped THEN {} ELSE {Issue(f, p) : p \in ToSet(Shown(f))}
        wrong(f) == places(f) \cup (IF f \in Broken THEN {SyntaxError(f)} ELSE {})
                    \cup {Missing(f, i) :
                            i \in {j \in DOMAIN requires[f] : f \notin Skipped /\ ~Found(requires[f][j])}}
        all == UNION {wrong(f) : f \in ToSet(read.check)}
                   \cup {Lint(s) : s \in ToSet(exit[1].lints)}
    IN /\ exit # <<>> =>
              /\ IsInjective(issues) /\ ToSet(issues) \subseteq all
              /\ Len(issues) < MaxIssues =>
                     ToSet(issues) = all /\ exit[1].code = ExitCode(all, exit[1].least)
       /\ fallback = <<>> => \A f \in ToSet(read.boot) : places(f) = {}
=============================================================================
