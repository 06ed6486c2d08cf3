----------------------------- MODULE Workspace -----------------------------
(***************************************************************************)
(* The workspace directory and the processes that share it (application,   *)
(* runtime/session, runtime/console): consoles, which keep what they       *)
(* analysed, discovered and planned in memory, and commands, which end     *)
(* with their work.  The stages hand their results on through files that   *)
(* are written in place, so that a process may die with one truncated.     *)
(* What follows planning is in WorkspaceRuns.                              *)
(*                                                                         *)
(* An analysis is its number, a discovery the number of the analysis it    *)
(* was made for, a strategy the two it was planned from.  Summaries, the   *)
(* decision trace and the planned graph are left out: no stage reads them. *)
(***************************************************************************)
EXTENDS Naturals, Sequences, FiniteSets, SequencesExt

CONSTANTS Procs, Papers,
          Consoles,     \* the processes that may be a console
          Shells,       \* those that may be a single command
          None,         \* no file, nothing in memory
          Torn,         \* a file that was truncated and not written
          MaxAnalyses,  \* bound: answers of the model
          MaxCommands,  \* bound: commands given
          MaxCleans     \* bound: clean --all

ASSUME ConsolesAssumption == Consoles \cup Shells \subseteq Procs
ASSUME BoundsAssumption == {MaxAnalyses, MaxCommands, MaxCleans} \subseteq Nat
ASSUME MarksAssumption ==
    None # Torn /\ {None, Torn} \cap (Papers \cup Nat \cup [analysis : Nat, discovery : Nat]) = {}

Results == {"analysis", "discovery", "strategy"}
Written == Results \cup {"text", "meta"}
Fields == Results \cup {"paper", "text"}
Nothing == [f \in Fields |-> None]

VARIABLES
    disk,       \* the files of the workspace
    analyses,   \* analyses made so far: the paper named and the text read
    mode,       \* of each process: off, console or command
    memory,     \* the session of a console
    todo,       \* what is left of the command in hand
    local,      \* its variables
    handle,     \* the file being written: closed, open, shared with another process, unlinked
    commands, cleans,
    raced,      \* two processes analysed at once, or a clean took the files from under a process
    mixed       \* two processes parsed at once, or one died between parsed_document.md and its .meta

history == <<raced, mixed>>
process == <<mode, memory, todo, local, handle>>
vars == <<disk, analyses, process, commands, cleans, history>>

Idle(p) == mode[p] # "off" /\ todo[p] = << >>
AtStep(p, step) == todo[p] # << >> /\ Head(todo[p]) = step
Keeps(p) == mode[p] = "console" /\ "materialize" \notin Range(todo[p])
Others(p) == Procs \ {p}

-----------------------------------------------------------------------------
(* Sessions and commands.                                                  *)

\* hydrate_workspace_from_disk: what is missing is read, up to the first file
\* that cannot be.
Absent(m, f) == IF m[f] = None THEN disk[f] ELSE m[f]
Unreadable(m) == \E f \in Results : Absent(m, f) = Torn
Readable(m, fs) == \A f \in fs : Absent(m, f) # Torn
\* Its mutant: a file is taken as it is.
HydratedBlindly(m) == [f \in Fields |-> IF f \in Results THEN Absent(m, f) ELSE m[f]]
Hydrated(m) ==
    LET read(f, fs) == IF Readable(m, fs) THEN Absent(m, f) ELSE m[f]
        a == read("analysis", {"analysis"})
    IN  [m EXCEPT !["analysis"] = a,
                  !["discovery"] = read("discovery", {"analysis", "discovery"}),
                  !["strategy"] = read("strategy", {"analysis", "discovery", "strategy"}),
                  !["paper"] = IF @ = None /\ a # None /\ ~Unreadable(m) THEN analyses[a].paper ELSE @]

Init ==
    /\ disk = [f \in Written |-> None]
    /\ analyses = << >>
    /\ mode = [p \in Procs |-> "off"]
    /\ memory = [p \in Procs |-> Nothing]
    /\ local = [p \in Procs |-> Nothing]
    /\ todo = [p \in Procs |-> << >>]
    /\ handle = [p \in Procs |-> "closed"]
    /\ commands = 0 /\ cleans = 0
    /\ raced = FALSE /\ mixed = FALSE

\* Man1LabConsole.run: ensure_session_open is outside the try, a file that
\* cannot be read ends the process.
OpenConsole(p) ==
    /\ p \in Consoles /\ mode[p] = "off" /\ commands < MaxCommands
    /\ ~Unreadable(Nothing)
    /\ mode' = [mode EXCEPT ![p] = "console"]
    /\ memory' = [memory EXCEPT ![p] = Hydrated(Nothing)]
    /\ UNCHANGED <<disk, analyses, todo, local, handle, commands, cleans, history>>

\* The handler begins: the session it leaves, its variables and its steps.
Begin(p, m, l, steps) ==
    /\ commands < MaxCommands
    /\ commands' = commands + 1
    /\ memory' = [memory EXCEPT ![p] = m]
    /\ local' = [local EXCEPT ![p] = IF steps = << >> THEN Nothing ELSE l]
    /\ todo' = [todo EXCEPT ![p] = steps]
    /\ UNCHANGED <<disk, analyses, mode, handle, cleans, history>>

Reading(paper) == [Nothing EXCEPT !["paper"] = paper]
Of(m) == [Nothing EXCEPT !["paper"] = m["paper"], !["analysis"] = m["analysis"], !["discovery"] = m["discovery"]]

Analyzing == <<"lookup", "analysis">>
Discovering == <<"discovery">>
Planning == <<"strategy">>

Analyze(p, paper) ==
    /\ mode[p] = "console" /\ Idle(p)
    /\ Begin(p, [memory[p] EXCEPT !["paper"] = paper], Reading(paper), Analyzing)

Discover(p) ==
    /\ mode[p] = "console" /\ Idle(p)
    /\ LET m == Hydrated(memory[p])
       IN  Begin(p, m, Of(m),
                 IF Unreadable(memory[p]) THEN << >>
                 ELSE IF m["analysis"] # None THEN Discovering
                 ELSE IF m["paper"] # None THEN Analyzing \o Discovering ELSE << >>)

\* What planning has to do before it plans.
Missing(m) ==
    (IF m["analysis"] = None THEN Analyzing ELSE << >>) \o (IF m["discovery"] = None THEN Discovering ELSE << >>)

Plan(p) ==
    /\ mode[p] = "console" /\ Idle(p)
    /\ LET m == Hydrated(memory[p])
       IN  Begin(p, m, Of(m),
                 IF Unreadable(memory[p]) \/ m["analysis"] = None THEN << >> ELSE Missing(m) \o Planning)

\* plan-all, with a paper or with that of the session.
PlanAll(p, paper) ==
    /\ mode[p] = "console" /\ Idle(p)
    /\ LET h == Hydrated(memory[p])
           m == IF paper = None \/ Unreadable(memory[p]) THEN h ELSE [h EXCEPT !["paper"] = paper]
       IN  Begin(p, m, Of(m),
                 IF Unreadable(memory[p]) \/ m["paper"] = None THEN << >> ELSE Missing(m) \o Planning)

\* reproduce in a console: it goes by the disk, the session keeps only the paper.
Reproducing == Analyzing \o Discovering \o Planning \o <<"materialize">>
Reproduce(p, paper) ==
    /\ mode[p] = "console" /\ Idle(p)
    /\ IF Unreadable(memory[p]) THEN Begin(p, Hydrated(memory[p]), Nothing, << >>)
       ELSE Begin(p, [Hydrated(memory[p]) EXCEPT !["paper"] = paper], Reading(paper), Reproducing)

\* The same from the shell, and analyze, discover and plan, which print what
\* they find and save none of it.
Command(p, paper, steps) ==
    /\ p \in Shells /\ mode[p] = "off" /\ commands < MaxCommands
    /\ commands' = commands + 1
    /\ mode' = [mode EXCEPT ![p] = "command"]
    /\ local' = [local EXCEPT ![p] = Reading(paper)]
    /\ todo' = [todo EXCEPT ![p] = steps]
    /\ UNCHANGED <<disk, analyses, memory, handle, cleans, history>>

Parsing(q) == AtStep(q, "meta") \/ (AtStep(q, "text") /\ handle[q] # "closed")

\* The process ends: exit, the end of a command, Ctrl-C in a handler, a crash.
End(p) ==
    /\ mode[p] # "off"
    /\ mode' = [mode EXCEPT ![p] = "off"]
    /\ memory' = [memory EXCEPT ![p] = Nothing]
    /\ local' = [local EXCEPT ![p] = Nothing]
    /\ todo' = [todo EXCEPT ![p] = << >>]
    /\ handle' = [handle EXCEPT ![p] = "closed"]
    /\ mixed' = (mixed \/ Parsing(p))
    /\ UNCHANGED <<disk, analyses, commands, cleans, raced>>

-----------------------------------------------------------------------------
(* Steps.                                                                  *)

Continue(p, l, steps) ==
    /\ local' = [local EXCEPT ![p] = IF steps = << >> THEN Nothing ELSE l]
    /\ todo' = [todo EXCEPT ![p] = steps]
    /\ UNCHANGED <<mode, handle, commands, cleans>>

\* A step that raises ends the command; a console goes on.
Raise(p) == Continue(p, Nothing, << >>) /\ UNCHANGED <<disk, analyses, memory, history>>

Fail(p) == (\E step \in {"lookup", "model", "discovery", "strategy"} : AtStep(p, step)) /\ handle[p] = "closed" /\ Raise(p)

\* load_parsed_document: only the text of the paper that is asked for.
Cached(paper) == IF disk["meta"] = paper THEN disk["text"] ELSE None

\* analyze: the analysis the workspace has is the answer, whatever the paper.
\* Its mutant: an analysis is always made.
NeverPersisted(p) == None
Persisted(p) == disk["analysis"]

Saving(q) == "analysis" \in Range(todo[q]) /\ ~AtStep(q, "lookup")

Lookup(p) ==
    /\ AtStep(p, "lookup")
    /\ Persisted(p) # Torn
    /\ LET paper == local[p]["paper"]
           rest == Tail(todo[p])
       IN  IF Persisted(p) # None
           THEN /\ Continue(p, [local[p] EXCEPT !["analysis"] = Persisted(p)], rest)
                /\ UNCHANGED <<disk, analyses, memory, history>>
           ELSE /\ IF Cached(paper) # None
                   THEN Continue(p, [local[p] EXCEPT !["text"] = Cached(paper)], <<"model">> \o rest)
                   ELSE Continue(p, [local[p] EXCEPT !["text"] = paper], <<"text", "meta", "model">> \o rest)
                /\ raced' = (raced \/ ("analysis" \in Range(rest) /\ \E q \in Others(p) : Saving(q)))
                /\ mixed' = (mixed \/ \E q \in Others(p) : Parsing(q))
                /\ UNCHANGED <<disk, analyses, memory>>

LookupTorn(p) == AtStep(p, "lookup") /\ Persisted(p) = Torn /\ Raise(p)

\* The model's answer, extracted and normalised.
Model(p) ==
    /\ AtStep(p, "model") /\ Len(analyses) < MaxAnalyses
    /\ analyses' = Append(analyses, [paper |-> local[p]["paper"], text |-> local[p]["text"]])
    /\ Continue(p, [local[p] EXCEPT !["analysis"] = Len(analyses) + 1, !["text"] = None], Tail(todo[p]))
    /\ UNCHANGED <<disk, memory, history>>

\* What a step writes.  Discovery is of the analysis in hand; no part of
\* planning compares the discovery it is given with the analysis.
Contents(p, f) ==
    CASE f = "meta" -> local[p]["paper"]
      [] f = "discovery" -> local[p]["analysis"]
      [] f = "strategy" -> [analysis |-> local[p]["analysis"], discovery |-> local[p]["discovery"]]
      [] OTHER -> local[p][f]

\* write_text: the file is truncated and then written; two processes that have
\* it open at once may leave a mixture of both.  A result is first a variable
\* of the handler and, in a console, of the session.
WriteStep(p) == todo[p] # << >> /\ Head(todo[p]) \in Written
SameFile(p) == {q \in Others(p) : WriteStep(q) /\ Head(todo[q]) = Head(todo[p]) /\ handle[q] \in {"open", "shared"}}

Truncate(p) ==
    /\ WriteStep(p) /\ handle[p] = "closed"
    /\ LET f == Head(todo[p])
       IN  /\ disk' = [disk EXCEPT ![f] = Torn]
           /\ local' = IF f = "meta" THEN local ELSE [local EXCEPT ![p][f] = Contents(p, f)]
           /\ memory' = IF Keeps(p) /\ f \in Results THEN [memory EXCEPT ![p][f] = Contents(p, f)] ELSE memory
    /\ handle' = [q \in Procs |->
                     IF q \in SameFile(p) \/ (q = p /\ SameFile(p) # {}) THEN "shared"
                     ELSE IF q = p THEN "open" ELSE handle[q]]
    /\ mixed' = (mixed \/ (AtStep(p, "text") /\ \E q \in Others(p) : Parsing(q)))
    /\ UNCHANGED <<analyses, mode, todo, commands, cleans, raced>>

Write(p) ==
    /\ WriteStep(p) /\ handle[p] # "closed"
    /\ LET f == Head(todo[p])
       IN  \E v \in {Contents(p, f)} \cup (IF handle[p] = "shared" THEN {Torn} ELSE {}) :
               disk' = IF handle[p] = "unlinked" THEN disk ELSE [disk EXCEPT ![f] = v]
    /\ handle' = [handle EXCEPT ![p] = "closed"]
    /\ todo' = [todo EXCEPT ![p] = Tail(@)]
    /\ local' = [local EXCEPT ![p] = IF Tail(todo[p]) = << >> THEN Nothing ELSE @]
    /\ UNCHANGED <<analyses, mode, memory, commands, cleans, history>>

\* The rest of a reproduction.
Materialize(p) ==
    /\ AtStep(p, "materialize")
    /\ Continue(p, Nothing, Tail(todo[p]))
    /\ UNCHANGED <<disk, analyses, memory, history>>

\* clean --all: the workspace directory goes, and what is open is written to a
\* file that has no name.
Clean ==
    /\ cleans < MaxCleans
    /\ cleans' = cleans + 1
    /\ disk' = [f \in DOMAIN disk |-> None]
    /\ raced' = (raced \/ \E p \in Procs : mode[p] # "off")
    /\ handle' = [p \in Procs |-> IF handle[p] = "closed" THEN "closed" ELSE "unlinked"]
    /\ UNCHANGED <<analyses, mode, memory, todo, local, commands, mixed>>

-----------------------------------------------------------------------------
Next ==
    \/ \E p \in Procs :
          \/ OpenConsole(p) \/ End(p)
          \/ Discover(p) \/ Plan(p) \/ PlanAll(p, None)
          \/ \E paper \in Papers :
                \/ Analyze(p, paper) \/ PlanAll(p, paper) \/ Reproduce(p, paper)
                \/ Command(p, paper, <<"lookup">>) \/ Command(p, paper, Reproducing)
          \/ Fail(p) \/ Lookup(p) \/ LookupTorn(p) \/ Model(p)
          \/ Truncate(p) \/ Write(p) \/ Materialize(p)
    \/ Clean

Spec == Init /\ [][Next]_vars

-----------------------------------------------------------------------------
(* Properties.                                                             *)

Analyses == DOMAIN analyses
Strategies == [analysis : Analyses, discovery : Analyses]

\* Type correctness.  A session never holds a file that could not be read.
TypeOK ==
    /\ disk["text"] \in Papers \cup {None, Torn} /\ disk["meta"] \in Papers \cup {None, Torn}
    /\ disk["analysis"] \in Analyses \cup {None, Torn}
    /\ disk["discovery"] \in Analyses \cup {None, Torn}
    /\ disk["strategy"] \in Strategies \cup {None, Torn}
    /\ analyses \in Seq([paper : Papers, text : Papers \cup {Torn}])
    /\ \A p \in Procs :
          /\ mode[p] \in {"off", "console", "command"}
          /\ \A m \in {memory[p], local[p]} :
                /\ m["paper"] \in Papers \cup {None}
                /\ m["analysis"] \in Analyses \cup {None} /\ m["discovery"] \in Analyses \cup {None}
                /\ m["strategy"] \in Strategies \cup {None}
          /\ handle[p] \in {"closed", "open", "shared", "unlinked"}
          /\ (mode[p] = "off" => todo[p] = << >>)
    /\ commands \in 0..MaxCommands /\ cleans \in 0..MaxCleans
    /\ {raced, mixed} \subseteq BOOLEAN

\* The analyses the disk and the sessions stand on.
Sources(m) ==
    ({m["analysis"], m["discovery"]}
       \cup (IF m["strategy"] \in {None, Torn} THEN {} ELSE {m["strategy"].analysis, m["strategy"].discovery}))
    \ {None, Torn}
InUse == Sources(disk) \cup UNION {Sources(memory[p]) : p \in Procs}

\* Planning does not compare the discovery it is given with the analysis, a
\* session and the disk mix what each of them has, and the text of a paper and
\* its owner are two files: still, whoever dies wherever, everything in a
\* workspace comes from one analysis and an analysis from the text of its own
\* paper.  Excepted are two processes that analyse, or parse, at once, a clean
\* that takes the files from under a console, and a death between the two files
\* of a parse.
OneLineage ==
    /\ raced \/ Cardinality(InUse) <= 1
    /\ mixed \/ \A a \in Analyses : analyses[a].text = analyses[a].paper
=============================================================================
