-------------------------- MODULE Workspace_proofs --------------------------
(***************************************************************************)
(* The workspace of any number of consoles and commands that die anywhere: *)
(* all that it holds comes from one analysis, and every analysis from the  *)
(* text of its own paper, with the exceptions the property names.          *)
(***************************************************************************)
EXTENDS Workspace, SequenceTheorems, FiniteSetTheorems, TLAPS

\* The steps of a command in the order in which every handler takes them.
Before == {"lookup", "text", "meta", "model"}
Steps == Before \cup Results \cup {"materialize"}
Place == [step \in Steps |->
             CASE step = "lookup" -> 1 [] step = "text" -> 2 [] step = "meta" -> 3 [] step = "model" -> 4
               [] step = "analysis" -> 5 [] step = "discovery" -> 6 [] step = "strategy" -> 7 [] OTHER -> 8]
Increasing(s) == \A i, j \in DOMAIN s : i < j => Place[s[i]] < Place[s[j]]
Has(p, step) == step \in Range(todo[p])

\* Whose results will be kept, and whose analysis is still to be made or found.
Keeper(p) == \E f \in Results : Has(p, f)
Unmade(p) == Has(p, "lookup") \/ Has(p, "model")

Plans == [analysis : Nat, discovery : Nat]
Values == Papers \cup Nat \cup {None, Torn} \cup Plans

Sessions == {m \in [Fields -> Values] :
                /\ m["paper"] \in Papers \cup {None}
                /\ m["analysis"] \in Analyses \cup {None} /\ m["discovery"] \in Analyses \cup {None}
                /\ m["strategy"] \in Strategies \cup {None}}

Types ==
    /\ TypeOK
    /\ disk \in [Written -> Values] /\ mode \in [Procs -> {"off", "console", "command"}]
    /\ memory \in [Procs -> Sessions] /\ local \in [Procs -> Sessions]
    /\ todo \in [Procs -> Seq(Steps)]
    /\ handle \in [Procs -> {"closed", "open", "shared", "unlinked"}]

\* What is left of a command, and what its handler knows by then.
Shaped(p) ==
    /\ Increasing(todo[p])
    /\ Keeper(p) /\ (\E step \in Before : Has(p, step)) => Has(p, "analysis")
    /\ Has(p, "text") => Has(p, "meta")
    /\ Has(p, "meta") => Has(p, "model")
    /\ Has(p, "lookup") => ~Has(p, "text") /\ ~Has(p, "meta") /\ ~Has(p, "model")
    /\ handle[p] # "closed" => WriteStep(p)

Knows(p) ==
    /\ \A step \in Before : Has(p, step) => local[p]["paper"] \in Papers
    /\ Has(p, "model") => local[p]["text"] \in Papers \cup {Torn}
    /\ Keeper(p) /\ ~Unmade(p) => local[p]["analysis"] \in Analyses
    /\ Has(p, "strategy") /\ ~Has(p, "discovery") => local[p]["discovery"] \in Analyses
    /\ AtStep(p, "discovery") /\ handle[p] # "closed" => local[p]["discovery"] \in Analyses

\* Everything that is kept, or will be, stands on a.
From(m, a) == Sources(m) \subseteq {a}
Common(a) ==
    /\ From(disk, a)
    /\ \A p \in Procs : From(memory[p], a) /\ (Keeper(p) => From(local[p], a))

\* Without an analysis on the disk there is nothing but what one process makes.
Bare(m) == Sources(m) = {}
Start ==
    /\ Bare(disk)
    /\ \A p \in Procs : Bare(memory[p]) /\ (Keeper(p) /\ ~Saving(p) => Bare(local[p]))
    /\ \A p, q \in Procs : Saving(p) /\ Saving(q) => p = q

Lineage ==
    /\ \E a : Common(a)
    /\ \A p \in Procs : handle[p] # "unlinked" /\ (mode[p] # "console" => Bare(memory[p]))
    /\ disk["analysis"] = None => Start
    /\ \A p \in Procs : Saving(p) /\ Has(p, "model") => disk["analysis"] = None /\ Bare(local[p])

\* The text on the disk is that of the paper its meta file names, or the process
\* that is between the two files is about to make it so.
Told == disk["meta"] \in Papers => disk["text"] \in {disk["meta"], None}
Parses(p) ==
    /\ handle[p] # "shared"
    /\ AtStep(p, "text") => (handle[p] = "unlinked" => disk["text"] = None)
    /\ AtStep(p, "meta") => /\ disk["text"] \in {local[p]["paper"], None}
                            /\ handle[p] = "unlinked" => disk["meta"] = None
Texts ==
    /\ \A p, q \in Procs : Parsing(p) /\ Parsing(q) => p = q
    /\ (\A p \in Procs : ~Parsing(p)) => Told
    /\ \A p \in Procs : (Parsing(p) => Parses(p)) /\ (Has(p, "model") => local[p]["text"] = local[p]["paper"])
    /\ \A a \in Analyses : analyses[a].text = analyses[a].paper

IInv ==
    /\ Types /\ (\A p \in Procs : Shaped(p) /\ Knows(p))
    /\ (raced \/ Lineage) /\ (mixed \/ Texts)

-----------------------------------------------------------------------------
(* What is left of a command.                                              *)

\* The elements of a sequence are those in its range.
LEMMA RangeOf ==
    ASSUME NEW s
    PROVE  Range(s) = {s[i] : i \in DOMAIN s}
BY DEF Range

\* The order of the steps.
LEMMA Places ==
    /\ Place \in [Steps -> Nat]
    /\ Place["lookup"] = 1 /\ Place["text"] = 2 /\ Place["meta"] = 3 /\ Place["model"] = 4
    /\ Place["analysis"] = 5 /\ Place["discovery"] = 6 /\ Place["strategy"] = 7 /\ Place["materialize"] = 8
BY DEF Place, Steps, Before, Results

\* The first step of a sequence, and those after it.
LEMMA FirstStep ==
    ASSUME NEW s \in Seq(Steps), Increasing(s), s # << >>
    PROVE  /\ Head(s) \in Range(s) /\ Tail(s) \in Seq(Steps) /\ Increasing(Tail(s))
           /\ Range(Tail(s)) = Range(s) \ {Head(s)} /\ Range(s) \subseteq Steps
           /\ \A x \in Range(Tail(s)) : Place[Head(s)] < Place[x]
<1>1. Len(s) \in Nat /\ Len(s) > 0 /\ DOMAIN s = 1..Len(s) /\ \A i \in DOMAIN s : s[i] \in Steps
  BY EmptySeq, LenProperties, ElementOfSeq
<1>2. /\ Head(s) = s[1] /\ Tail(s) \in Seq(Steps) /\ Len(Tail(s)) = Len(s) - 1
      /\ \A i \in 1..Len(s) - 1 : Tail(s)[i] = s[i + 1]
  BY <1>1, HeadTailProperties
<1>3. DOMAIN Tail(s) = 1..Len(s) - 1
  BY <1>1, <1>2, LenProperties
<1>4. \A i \in DOMAIN s : i # 1 => i - 1 \in DOMAIN Tail(s) /\ Tail(s)[i - 1] = s[i]
  BY <1>1, <1>2, <1>3
<1>5. \A i \in DOMAIN Tail(s) : i + 1 \in DOMAIN s /\ i + 1 # 1 /\ 1 < i + 1 /\ Tail(s)[i] = s[i + 1]
  BY <1>1, <1>2, <1>3
<1>6. 1 \in DOMAIN s
  BY <1>1
<1>7. \A i, k \in DOMAIN s : i < k => Place[s[i]] < Place[s[k]]
  BY DEF Increasing
<1>r. Range(s) = {s[i] : i \in DOMAIN s} /\ Range(Tail(s)) = {Tail(s)[i] : i \in DOMAIN Tail(s)}
  BY RangeOf
<1>8. \A x \in Range(Tail(s)) : x \in Range(s) /\ Place[Head(s)] < Place[x]
  BY <1>2, <1>5, <1>6, <1>7, <1>r
<1>9. Place[Head(s)] \in Nat
  BY <1>1, <1>2, <1>6, Places
<1>10. Head(s) \notin Range(Tail(s))
  BY <1>8, <1>9
<1>11. \A x \in Range(s) : x = Head(s) \/ x \in Range(Tail(s))
  <2>1. SUFFICES ASSUME NEW x \in Range(s), x # Head(s) PROVE x \in Range(Tail(s))
    OBVIOUS
  <2>2. PICK i \in DOMAIN s : x = s[i]
    BY <1>r
  <2>3. i - 1 \in DOMAIN Tail(s) /\ Tail(s)[i - 1] = x
    BY <1>2, <1>4, <2>1, <2>2
  <2>4. QED
    BY <1>r, <2>3
<1>12. Head(s) \in Range(s) /\ Range(s) \subseteq Steps
  BY <1>1, <1>2, <1>6, <1>r
<1>13. Increasing(Tail(s))
  <2>1. ASSUME NEW i \in DOMAIN Tail(s), NEW k \in DOMAIN Tail(s), i < k
        PROVE  Place[Tail(s)[i]] < Place[Tail(s)[k]]
    <3>1. i + 1 < k + 1
      BY <1>1, <1>3, <2>1
    <3>2. QED
      BY <1>5, <1>7, <2>1, <3>1
  <2>2. QED
    BY <2>1 DEF Increasing
<1>14. Range(Tail(s)) = Range(s) \ {Head(s)}
  BY <1>8, <1>10, <1>11
<1>15. QED
  BY <1>2, <1>8, <1>12, <1>13, <1>14

\* Steps put before others that come later.
LEMMA Joined ==
    ASSUME NEW s \in Seq(Steps), NEW t \in Seq(Steps), Increasing(s), Increasing(t),
           \A x \in Range(s), y \in Range(t) : Place[x] < Place[y]
    PROVE  s \o t \in Seq(Steps) /\ Increasing(s \o t) /\ Range(s \o t) = Range(s) \cup Range(t)
<1>1. /\ Len(s) \in Nat /\ DOMAIN s = 1..Len(s) /\ Len(t) \in Nat /\ DOMAIN t = 1..Len(t)
      /\ s \o t \in Seq(Steps) /\ Len(s \o t) = Len(s) + Len(t) /\ DOMAIN (s \o t) = 1..Len(s) + Len(t)
  BY ConcatProperties, LenProperties
<1>2. \A i \in 1..Len(s) + Len(t) : (s \o t)[i] = IF i <= Len(s) THEN s[i] ELSE t[i - Len(s)]
  BY ConcatProperties
<1>3. \A i \in 1..Len(s) : i \in 1..Len(s) + Len(t) /\ (s \o t)[i] = s[i]
  BY <1>1, <1>2
<1>4. \A i \in 1..Len(t) : i + Len(s) \in 1..Len(s) + Len(t) /\ (s \o t)[i + Len(s)] = t[i]
  BY <1>1, <1>2
<1>5. \A i \in 1..Len(s) + Len(t) : \/ i \in DOMAIN s
                                    \/ i > Len(s) /\ i - Len(s) \in DOMAIN t /\ (s \o t)[i] = t[i - Len(s)]
  BY <1>1, <1>2
<1>r. /\ Range(s) = {s[i] : i \in DOMAIN s} /\ Range(t) = {t[i] : i \in DOMAIN t}
      /\ Range(s \o t) = {(s \o t)[i] : i \in DOMAIN (s \o t)}
  BY RangeOf
<1>6. Range(s \o t) = Range(s) \cup Range(t)
  BY <1>1, <1>3, <1>4, <1>5, <1>r
<1>7. Increasing(s \o t)
  <2>1. ASSUME NEW i \in DOMAIN (s \o t), NEW k \in DOMAIN (s \o t), i < k
        PROVE  Place[(s \o t)[i]] < Place[(s \o t)[k]]
    <3>1. CASE i \in DOMAIN s /\ k \in DOMAIN s
      BY <1>1, <1>3, <2>1, <3>1 DEF Increasing
    <3>2. CASE i \in DOMAIN s /\ k \notin DOMAIN s
      BY <1>1, <1>3, <1>5, <2>1, <3>2, <1>r
    <3>3. CASE i \notin DOMAIN s /\ k \notin DOMAIN s
      BY <1>1, <1>5, <2>1, <3>3 DEF Increasing
    <3>4. QED
      BY <1>1, <2>1, <3>1, <3>2, <3>3
  <2>2. QED
    BY <2>1 DEF Increasing
<1>8. QED
  BY <1>1, <1>6, <1>7

\* A single step, and none.
LEMMA SingleStep ==
    /\ \A x \in Steps : <<x>> \in Seq(Steps) /\ Increasing(<<x>>) /\ Range(<<x>>) = {x}
    /\ << >> \in Seq(Steps) /\ Increasing(<< >>) /\ Range(<< >>) = {}
<1>1. ASSUME NEW x \in Steps PROVE <<x>> \in Seq(Steps) /\ Increasing(<<x>>) /\ Range(<<x>>) = {x}
  BY RangeOf DEF Increasing
<1>2. << >> \in Seq(Steps) /\ Increasing(<< >>) /\ Range(<< >>) = {}
  BY RangeOf DEF Increasing
<1>3. QED
  BY <1>1, <1>2

\* A command whose steps are those of R, in order.
Lists(s, R) == s \in Seq(Steps) /\ Increasing(s) /\ Range(s) = R

\* One list of steps after another.
LEMMA JoinedLists ==
    ASSUME NEW s, NEW R, NEW t, NEW Q, Lists(s, R), Lists(t, Q), \A x \in R, y \in Q : Place[x] < Place[y]
    PROVE  Lists(s \o t, R \cup Q)
BY Joined DEF Lists

\* A list has an end, and steps for one who is not through.
LEMMA ListFacts ==
    ASSUME NEW s, NEW R, Lists(s, R)
    PROVE  /\ R \subseteq Steps /\ (s = << >> <=> R = {})
           /\ R # {} => /\ Head(s) \in R /\ Lists(Tail(s), R \ {Head(s)})
                        /\ \A x \in R : x = Head(s) \/ Place[Head(s)] < Place[x]
<1>1. CASE s = << >>
  BY <1>1, SingleStep DEF Lists
<1>2. CASE s # << >>
  BY <1>2, FirstStep DEF Lists
<1>3. QED
  BY <1>1, <1>2

\* The steps of the handlers.
LEMMA HandlerSteps ==
    /\ Lists(<< >>, {}) /\ Lists(Analyzing, {"lookup", "analysis"}) /\ Lists(<<"lookup">>, {"lookup"})
    /\ Lists(Discovering, {"discovery"}) /\ Lists(Planning, {"strategy"}) /\ Lists(<<"materialize">>, {"materialize"})
    /\ Lists(<<"model">>, {"model"}) /\ Lists(<<"text", "meta", "model">>, {"text", "meta", "model"})
<1>1. \A x \in Steps : Lists(<<x>>, {x})
  BY SingleStep, Zenon DEF Lists
<1>2. {"lookup", "text", "meta", "model", "analysis", "discovery", "strategy", "materialize"} \subseteq Steps
  BY DEF Steps, Before, Results
<1>3. Lists(Analyzing, {"lookup", "analysis"})
  <2>1. Analyzing \in Seq(Steps) /\ Increasing(Analyzing)
    BY <1>2, Places DEF Analyzing, Increasing
  <2>2. Range(Analyzing) = {"lookup", "analysis"}
    BY RangeOf DEF Analyzing
  <2>3. QED
    BY <2>1, <2>2 DEF Lists
<1>4. Lists(<<"text", "meta", "model">>, {"text", "meta", "model"})
  <2>1. <<"text", "meta", "model">> \in Seq(Steps) /\ Increasing(<<"text", "meta", "model">>)
    BY <1>2, Places DEF Increasing
  <2>2. Range(<<"text", "meta", "model">>) = {"text", "meta", "model"}
    BY RangeOf
  <2>3. QED
    BY <2>1, <2>2 DEF Lists
<1>5. QED
  BY <1>1, <1>2, <1>3, <1>4, SingleStep DEF Lists, Discovering, Planning

\* Those that do several things in a row.
LEMMA LongHandlerSteps ==
    /\ Lists(Analyzing \o Discovering, {"lookup", "analysis", "discovery"})
    /\ Lists(Reproducing, {"lookup", "analysis", "discovery", "strategy", "materialize"})
    /\ \A m : Lists(Missing(m) \o Planning,
                    {step \in {"lookup", "analysis"} : m["analysis"] = None}
                      \cup {step \in {"discovery"} : m["discovery"] = None} \cup {"strategy"})
<1>1. Lists(Analyzing \o Discovering, {"lookup", "analysis"} \cup {"discovery"})
  BY HandlerSteps, JoinedLists, Places
<1>2. Lists(Analyzing \o Discovering \o Planning, ({"lookup", "analysis"} \cup {"discovery"}) \cup {"strategy"})
  BY <1>1, HandlerSteps, JoinedLists, Places
<1>3. Lists(Reproducing, (({"lookup", "analysis"} \cup {"discovery"}) \cup {"strategy"}) \cup {"materialize"})
  BY <1>2, HandlerSteps, JoinedLists, Places DEF Reproducing
<1>4. ASSUME NEW m
      PROVE  Lists(Missing(m) \o Planning,
                   {step \in {"lookup", "analysis"} : m["analysis"] = None}
                     \cup {step \in {"discovery"} : m["discovery"] = None} \cup {"strategy"})
  <2> DEFINE A == {step \in {"lookup", "analysis"} : m["analysis"] = None}
             D == {step \in {"discovery"} : m["discovery"] = None}
             a == IF m["analysis"] = None THEN Analyzing ELSE << >>
             d == IF m["discovery"] = None THEN Discovering ELSE << >>
  <2>1. Lists(a, A) /\ A \subseteq {"lookup", "analysis"}
    BY HandlerSteps
  <2>2. Lists(d, D) /\ D \subseteq {"discovery"}
    BY HandlerSteps
  <2>3. Missing(m) = a \o d
    BY DEF Missing
  <2> HIDE DEF A, D, a, d
  <2>4. Lists(a \o d, A \cup D)
    <3>1. \A x \in A, y \in D : Place[x] < Place[y]
      BY <2>1, <2>2, Places
    <3>2. QED
      BY <2>1, <2>2, <3>1, JoinedLists
  <2>5. Lists((a \o d) \o Planning, (A \cup D) \cup {"strategy"})
    <3>1. \A x \in A \cup D, y \in {"strategy"} : Place[x] < Place[y]
      BY <2>1, <2>2, Places
    <3>2. Lists(Planning, {"strategy"})
      BY HandlerSteps
    <3>3. QED
      BY <2>4, <3>1, <3>2, JoinedLists
  <2>6. QED
    BY <2>3, <2>5 DEF A, D
<1>5. {"lookup", "analysis"} \cup {"discovery"} = {"lookup", "analysis", "discovery"}
  OBVIOUS
<1>6. (({"lookup", "analysis"} \cup {"discovery"}) \cup {"strategy"}) \cup {"materialize"}
        = {"lookup", "analysis", "discovery", "strategy", "materialize"}
  OBVIOUS
<1>7. QED
  BY <1>1, <1>3, <1>4, <1>5, <1>6

\* What a look-up puts before the rest.
LEMMA LookupSteps ==
    ASSUME NEW s, NEW R, Lists(s, R), R \cap Before = {}
    PROVE  /\ Lists(<<"model">> \o s, R \cup {"model"})
           /\ Lists(<<"text", "meta", "model">> \o s, R \cup {"text", "meta", "model"})
<1>1. R \subseteq {"analysis", "discovery", "strategy", "materialize"}
  <2>1. R \subseteq Steps
    BY ListFacts
  <2>2. QED
    BY <2>1 DEF Steps, Before, Results
<1>2. \A x \in {"text", "meta", "model"}, y \in R : Place[x] < Place[y]
  BY <1>1, Places
<1>3. Lists(<<"model">> \o s, {"model"} \cup R)
  BY <1>2, HandlerSteps, JoinedLists
<1>4. Lists(<<"text", "meta", "model">> \o s, {"text", "meta", "model"} \cup R)
  BY <1>2, HandlerSteps, JoinedLists
<1>5. {"model"} \cup R = R \cup {"model"} /\ {"text", "meta", "model"} \cup R = R \cup {"text", "meta", "model"}
  OBVIOUS
<1>6. QED
  BY <1>3, <1>4, <1>5

-----------------------------------------------------------------------------
(* What the steps do.                                                      *)

\* An empty session is one, and stands on nothing.
LEMMA NothingHeld == Nothing \in Sessions /\ Sources(Nothing) = {} /\ \A f \in Fields : Nothing[f] = None
BY DEF Nothing, Sessions, Fields, Results, Values, Sources

\* What is read from the disk into a session was on the disk.
LEMMA HydratedSession ==
    ASSUME Types, NEW m \in Sessions
    PROVE  Hydrated(m) \in Sessions /\ Sources(Hydrated(m)) \subseteq Sources(m) \cup Sources(disk)
<1>1. /\ disk["analysis"] \in Analyses \cup {None, Torn} /\ disk["discovery"] \in Analyses \cup {None, Torn}
      /\ disk["strategy"] \in Strategies \cup {None, Torn}
      /\ analyses \in Seq([paper : Papers, text : Papers \cup {Torn}])
  BY DEF Types, TypeOK
<1>2. \A a \in Analyses : analyses[a].paper \in Papers
  <2>1. ASSUME NEW a \in Analyses PROVE analyses[a] \in [paper : Papers, text : Papers \cup {Torn}]
    BY <1>1, ElementOfSeq, LenProperties DEF Analyses
  <2>2. QED
    BY <2>1
<1>3. {"analysis", "discovery", "strategy", "paper"} \subseteq Fields /\ Analyses \subseteq Nat /\ Strategies \subseteq Plans
  BY <1>1, LenProperties DEF Fields, Results, Analyses, Strategies, Plans
<1> DEFINE read(f, fs) == IF Readable(m, fs) THEN Absent(m, f) ELSE m[f]
           a == read("analysis", {"analysis"})
           d == read("discovery", {"analysis", "discovery"})
           s == read("strategy", {"analysis", "discovery", "strategy"})
<1>4. /\ a \in {m["analysis"], disk["analysis"]} /\ d \in {m["discovery"], disk["discovery"]}
      /\ s \in {m["strategy"], disk["strategy"]}
      /\ a # Torn /\ d # Torn /\ s # Torn
      /\ Hydrated(m) = [m EXCEPT !["analysis"] = a, !["discovery"] = d, !["strategy"] = s,
                          !["paper"] = IF @ = None /\ a # None /\ ~Unreadable(m) THEN analyses[a].paper ELSE @]
  <2>1. Torn # m["analysis"] /\ Torn # m["discovery"] /\ Torn # m["strategy"]
    <3>1. Torn \notin Nat /\ Torn \notin Plans /\ Torn # None
      BY MarksAssumption DEF Plans
    <3>2. QED
      BY <1>3, <3>1 DEF Sessions
  <2>2. QED
    BY <2>1 DEF Hydrated, Readable, Absent
<1> HIDE DEF read, a, d, s
<1>5. Hydrated(m) \in Sessions
  <2>1. /\ a \in Analyses \cup {None} /\ d \in Analyses \cup {None} /\ s \in Strategies \cup {None}
        /\ {a, d, s} \subseteq Values /\ Papers \cup {None} \subseteq Values
    BY <1>1, <1>3, <1>4 DEF Sessions, Values
  <2> DEFINE paper == IF m["paper"] = None /\ a # None /\ ~Unreadable(m) THEN analyses[a].paper ELSE m["paper"]
  <2>2. paper \in Papers \cup {None}
    BY <1>2, <2>1 DEF Sessions
  <2>3. Hydrated(m) = [m EXCEPT !["analysis"] = a, !["discovery"] = d, !["strategy"] = s, !["paper"] = paper]
    BY <1>3, <1>4 DEF Sessions
  <2> HIDE DEF paper
  <2>4. QED
    BY <1>3, <2>1, <2>2, <2>3 DEF Sessions
<1>6. Hydrated(m)["analysis"] = a /\ Hydrated(m)["discovery"] = d /\ Hydrated(m)["strategy"] = s
  BY <1>3, <1>4 DEF Sessions
<1>7. QED
  BY <1>4, <1>5, <1>6 DEF Sources

\* A command begins, or a console: what it will do, and what it knows already.
BeginsWith(p, m, l, s, R) ==
    /\ todo[p] = << >> /\ Lists(s, R) /\ R \cap {"text", "meta", "model"} = {}
    /\ todo' = [todo EXCEPT ![p] = s]
    /\ memory' = [memory EXCEPT ![p] = m] /\ local' = [local EXCEPT ![p] = l]
    /\ mode' \in {mode, [mode EXCEPT ![p] = "console"], [mode EXCEPT ![p] = "command"]} /\ mode'[p] # "off"
    /\ mode'[p] = "console" \/ (mode[p] # "console" /\ m = memory[p])
    /\ commands' \in {commands} \cup {n \in {commands + 1} : commands < MaxCommands}
    /\ UNCHANGED <<disk, analyses, handle, cleans, history>>
    /\ Sources(m) \cup Sources(l) \subseteq Sources(memory[p]) \cup Sources(disk) \/ (R = {} /\ l = local[p])
    /\ Sources(m) \subseteq Sources(memory[p]) \cup Sources(disk)
    /\ "analysis" \in R => "lookup" \in R
    /\ "lookup" \in R => l["paper"] \in Papers /\ (R \cap Results # {} => "analysis" \in R)
    /\ R \cap Results # {} /\ "lookup" \notin R => l["analysis"] \in Analyses
    /\ "strategy" \in R /\ "discovery" \notin R => l["discovery"] \in Analyses
Begins(p) == \E s, R : \E m, l \in Sessions : BeginsWith(p, m, l, s, R)

\* A command ends, is given up, or goes with its process.
Stops(p) ==
    /\ todo' = [todo EXCEPT ![p] = << >>] /\ local' = [local EXCEPT ![p] = Nothing]
    /\ handle' = [handle EXCEPT ![p] = "closed"]
    /\ \/ UNCHANGED <<memory, mode>>
       \/ memory' = [memory EXCEPT ![p] = Nothing] /\ mode' = [mode EXCEPT ![p] = "off"]
    /\ UNCHANGED <<disk, analyses, commands, cleans, raced>>
    /\ mixed' \in BOOLEAN /\ (mixed \/ Parsing(p) => mixed')

\* A session that is given another paper.
For(m, paper) == [m EXCEPT !["paper"] = paper]

\* The part of a session that a handler works with.
LEMMA HandlerVariables ==
    /\ \A m \in Sessions : /\ Of(m) \in Sessions /\ Sources(Of(m)) \subseteq Sources(m)
                           /\ Of(m)["paper"] = m["paper"] /\ Of(m)["analysis"] = m["analysis"]
                           /\ Of(m)["discovery"] = m["discovery"]
    /\ \A m \in Sessions, paper \in Papers :
          /\ For(m, paper) \in Sessions /\ Sources(For(m, paper)) = Sources(m) /\ For(m, paper)["paper"] = paper
          /\ For(m, paper)["analysis"] = m["analysis"] /\ For(m, paper)["discovery"] = m["discovery"]
    /\ \A paper \in Papers : /\ Reading(paper) \in Sessions /\ Sources(Reading(paper)) = {}
                             /\ Reading(paper)["paper"] = paper
<1>0. {"paper", "analysis", "discovery", "strategy"} \subseteq Fields /\ Papers \subseteq Values
  BY DEF Fields, Results, Values
<1>1. ASSUME NEW m \in Sessions
      PROVE  /\ Of(m) \in Sessions /\ Sources(Of(m)) \subseteq Sources(m)
             /\ Of(m)["paper"] = m["paper"] /\ Of(m)["analysis"] = m["analysis"] /\ Of(m)["discovery"] = m["discovery"]
  <2>1. Nothing \in [Fields -> Values] /\ Nothing["strategy"] = None
    BY NothingHeld, <1>0 DEF Sessions
  <2>2. Of(m) = [Nothing EXCEPT !["paper"] = m["paper"], !["analysis"] = m["analysis"], !["discovery"] = m["discovery"]]
    BY DEF Of
  <2>3. /\ Of(m)["paper"] = m["paper"] /\ Of(m)["analysis"] = m["analysis"] /\ Of(m)["discovery"] = m["discovery"]
        /\ Of(m)["strategy"] = None /\ Of(m) \in [Fields -> Values]
    BY <1>0, <2>1, <2>2 DEF Sessions
  <2>4. Of(m) \in Sessions
    BY <2>3 DEF Sessions
  <2>5. Sources(Of(m)) \subseteq Sources(m)
    BY <2>3 DEF Sources
  <2>6. QED
    BY <2>3, <2>4, <2>5
<1>2. ASSUME NEW m \in Sessions, NEW paper \in Papers, NEW r, r = For(m, paper)
      PROVE  /\ r \in Sessions /\ Sources(r) = Sources(m) /\ r["paper"] = paper
             /\ r["analysis"] = m["analysis"] /\ r["discovery"] = m["discovery"]
  <2>1. /\ r["paper"] = paper /\ r["analysis"] = m["analysis"] /\ r["discovery"] = m["discovery"]
        /\ r["strategy"] = m["strategy"] /\ r \in [Fields -> Values]
    BY <1>0, <1>2 DEF Sessions, For
  <2>2. r \in Sessions
    BY <2>1 DEF Sessions
  <2>3. Sources(r) = Sources(m)
    BY <2>1 DEF Sources
  <2>4. QED
    BY <2>1, <2>2, <2>3
<1>3. ASSUME NEW paper \in Papers
      PROVE  Reading(paper) \in Sessions /\ Sources(Reading(paper)) = {} /\ Reading(paper)["paper"] = paper
  BY <1>2, NothingHeld, Zenon DEF Reading, For
<1>4. QED
  BY <1>1, <1>2, <1>3

\* Every command begins so.
LEMMA CommandsBegin ==
    ASSUME Types, NEW p \in Procs,
           \/ OpenConsole(p) \/ Discover(p) \/ Plan(p) \/ PlanAll(p, None)
           \/ \E paper \in Papers : \/ Analyze(p, paper) \/ PlanAll(p, paper) \/ Reproduce(p, paper)
                                    \/ Command(p, paper, <<"lookup">>) \/ Command(p, paper, Reproducing)
    PROVE  Begins(p)
<1>0. /\ memory \in [Procs -> Sessions] /\ local \in [Procs -> Sessions] /\ todo \in [Procs -> Seq(Steps)]
      /\ mode \in [Procs -> {"off", "console", "command"}]
      /\ memory[p] \in Sessions /\ local[p] \in Sessions /\ (mode[p] = "off" => todo[p] = << >>)
  BY DEF Types, TypeOK
<1> DEFINE h == Hydrated(memory[p])
<1>h. h \in Sessions /\ Sources(h) \subseteq Sources(memory[p]) \cup Sources(disk)
  BY <1>0, HydratedSession
<1>w. Results = {"analysis", "discovery", "strategy"}
  BY DEF Results
\* A handler of the console begins.
<1>b. ASSUME NEW m \in Sessions, NEW l \in Sessions, NEW s, NEW R, mode[p] = "console", Idle(p), Begin(p, m, l, s),
             Lists(s, R), R \cap {"text", "meta", "model"} = {},
             Sources(m) \subseteq Sources(memory[p]) \cup Sources(disk), Sources(l) \subseteq Sources(m),
             "analysis" \in R => "lookup" \in R,
             "lookup" \in R => l["paper"] \in Papers /\ (R \cap Results # {} => "analysis" \in R),
             R \cap Results # {} /\ "lookup" \notin R => l["analysis"] \in Analyses,
             "strategy" \in R /\ "discovery" \notin R => l["discovery"] \in Analyses
      PROVE  Begins(p)
  <2>1. /\ commands < MaxCommands /\ commands' = commands + 1 /\ memory' = [memory EXCEPT ![p] = m]
        /\ todo' = [todo EXCEPT ![p] = s] /\ mode' = mode /\ mode'[p] # "off" /\ todo[p] = << >>
        /\ UNCHANGED <<disk, analyses, handle, cleans, history>>
    BY <1>b DEF Begin, Idle
  <2>2. CASE s = << >>
    <3>1. R = {} /\ local' = [local EXCEPT ![p] = Nothing]
      BY <1>b, <2>2, ListFacts DEF Begin
    <3>2. Nothing \in Sessions /\ Sources(Nothing) = {}
      BY NothingHeld
    <3>3. QED
      BY <1>b, <2>1, <3>1, <3>2 DEF Begins, BeginsWith
  <2>3. CASE s # << >>
    <3>1. local' = [local EXCEPT ![p] = l]
      BY <1>b, <2>3 DEF Begin
    <3>2. BeginsWith(p, m, l, s, R)
      BY <1>b, <2>1, <3>1 DEF BeginsWith
    <3>3. QED
      BY <3>2 DEF Begins
  <2>4. QED
    BY <2>2, <2>3
<1> HIDE DEF h
<1>o. Lists(<< >>, {})
  BY HandlerSteps
<1>1. CASE OpenConsole(p)
  <2>1. Hydrated(Nothing) \in Sessions /\ Sources(Hydrated(Nothing)) \subseteq Sources(disk)
    BY NothingHeld, HydratedSession
  <2>2. /\ mode' = [mode EXCEPT ![p] = "console"] /\ memory' = [memory EXCEPT ![p] = Hydrated(Nothing)]
        /\ todo[p] = << >> /\ todo' = [todo EXCEPT ![p] = << >>] /\ local' = [local EXCEPT ![p] = local[p]]
        /\ UNCHANGED <<disk, analyses, handle, commands, cleans, history>> /\ mode'[p] # "off"
    BY <1>0, <1>1 DEF OpenConsole
  <2>3. PICK m \in Sessions, l \in Sessions : m = Hydrated(Nothing) /\ l = local[p]
    BY <1>0, <2>1
  <2>a. PICK s, R : s = << >> /\ R = {}
    OBVIOUS
  <2>4. BeginsWith(p, m, l, s, R)
    BY <1>0, <1>o, <2>1, <2>2, <2>3, <2>a DEF BeginsWith
  <2>5. QED
    BY <2>4 DEF Begins
<1>2. CASE Discover(p)
  <2> DEFINE s == IF Unreadable(memory[p]) THEN << >>
                  ELSE IF h["analysis"] # None THEN Discovering
                  ELSE IF h["paper"] # None THEN Analyzing \o Discovering ELSE << >>
             R == IF Unreadable(memory[p]) THEN {}
                  ELSE IF h["analysis"] # None THEN {"discovery"}
                  ELSE IF h["paper"] # None THEN {"lookup", "analysis", "discovery"} ELSE {}
  <2>1. Lists(s, R) /\ R \subseteq {"lookup", "analysis", "discovery"}
    BY HandlerSteps, LongHandlerSteps
  <2>2. Begin(p, h, Of(h), s) /\ mode[p] = "console" /\ Idle(p)
    BY <1>2 DEF Discover, h
  <2>3. /\ Of(h) \in Sessions /\ Sources(Of(h)) \subseteq Sources(h)
        /\ Of(h)["paper"] = h["paper"] /\ Of(h)["analysis"] = h["analysis"]
    BY <1>h, HandlerVariables
  <2>4. /\ "lookup" \in R => Of(h)["paper"] \in Papers /\ "analysis" \in R
        /\ "analysis" \in R => "lookup" \in R
        /\ R # {} /\ "lookup" \notin R => Of(h)["analysis"] \in Analyses
    BY <1>h, <2>3 DEF Sessions
  <2> HIDE DEF s, R
  <2>5. QED
    BY <1>b, <1>h, <2>1, <2>2, <2>3, <2>4
<1>3. CASE Plan(p)
  <2> DEFINE none == Unreadable(memory[p]) \/ h["analysis"] = None
             s == IF none THEN << >> ELSE Missing(h) \o Planning
             R == IF none THEN {} ELSE {step \in {"lookup", "analysis"} : h["analysis"] = None}
                                          \cup {step \in {"discovery"} : h["discovery"] = None} \cup {"strategy"}
  <2>1. Lists(s, R) /\ R \subseteq {"lookup", "analysis", "discovery", "strategy"}
    BY HandlerSteps, LongHandlerSteps
  <2>2. Begin(p, h, Of(h), s) /\ mode[p] = "console" /\ Idle(p)
    BY <1>3 DEF Plan, h
  <2>3. /\ Of(h) \in Sessions /\ Sources(Of(h)) \subseteq Sources(h)
        /\ Of(h)["analysis"] = h["analysis"] /\ Of(h)["discovery"] = h["discovery"]
    BY <1>h, HandlerVariables
  <2>4. /\ "lookup" \notin R /\ "analysis" \notin R
        /\ R # {} => Of(h)["analysis"] \in Analyses
        /\ "strategy" \in R /\ "discovery" \notin R => Of(h)["discovery"] \in Analyses
    BY <1>h, <2>3 DEF Sessions
  <2> HIDE DEF s, R
  <2>5. QED
    BY <1>b, <1>h, <2>1, <2>2, <2>3, <2>4
<1>4. ASSUME NEW paper \in Papers \cup {None}, PlanAll(p, paper) PROVE Begins(p)
  <2> DEFINE m == IF paper = None \/ Unreadable(memory[p]) THEN h ELSE [h EXCEPT !["paper"] = paper]
  <2>1. m \in Sessions /\ Sources(m) \subseteq Sources(memory[p]) \cup Sources(disk)
    <3>1. CASE paper = None \/ Unreadable(memory[p])
      BY <1>h, <3>1
    <3>2. CASE ~(paper = None \/ Unreadable(memory[p]))
      <4>1. m = For(h, paper) /\ paper \in Papers
        BY <3>2 DEF For
      <4> HIDE DEF m
      <4>2. QED
        BY <1>h, <4>1, HandlerVariables
    <3>3. QED
      BY <3>1, <3>2
  <2> DEFINE none == Unreadable(memory[p]) \/ m["paper"] = None
             s == IF none THEN << >> ELSE Missing(m) \o Planning
             R == IF none THEN {} ELSE {step \in {"lookup", "analysis"} : m["analysis"] = None}
                                          \cup {step \in {"discovery"} : m["discovery"] = None} \cup {"strategy"}
  <2>2. Begin(p, m, Of(m), s) /\ mode[p] = "console" /\ Idle(p)
    BY <1>4 DEF PlanAll, h
  <2> HIDE DEF m
  <2>3. Lists(s, R) /\ R \subseteq {"lookup", "analysis", "discovery", "strategy"}
    BY HandlerSteps, LongHandlerSteps
  <2>4. /\ Of(m) \in Sessions /\ Sources(Of(m)) \subseteq Sources(m) /\ Of(m)["paper"] = m["paper"]
        /\ Of(m)["analysis"] = m["analysis"] /\ Of(m)["discovery"] = m["discovery"]
    BY <2>1, HandlerVariables
  <2>5. /\ "lookup" \in R => Of(m)["paper"] \in Papers /\ "analysis" \in R
        /\ "analysis" \in R => "lookup" \in R
        /\ R # {} /\ "lookup" \notin R => Of(m)["analysis"] \in Analyses
        /\ "strategy" \in R /\ "discovery" \notin R => Of(m)["discovery"] \in Analyses
    BY <2>1, <2>4 DEF Sessions
  <2> HIDE DEF s, R
  <2>6. QED
    BY <1>b, <2>1, <2>2, <2>3, <2>4, <2>5
<1>5. ASSUME NEW paper \in Papers, Analyze(p, paper) PROVE Begins(p)
  <2> DEFINE m == [memory[p] EXCEPT !["paper"] = paper]
  <2>1. m \in Sessions /\ Sources(m) = Sources(memory[p])
    <3>1. m = For(memory[p], paper)
      BY DEF For
    <3> HIDE DEF m
    <3>2. QED
      BY <1>0, <3>1, HandlerVariables
  <2>2. /\ Reading(paper) \in Sessions /\ Sources(Reading(paper)) = {} /\ Reading(paper)["paper"] = paper
    BY HandlerVariables
  <2>3. Begin(p, m, Reading(paper), Analyzing) /\ mode[p] = "console" /\ Idle(p)
    BY <1>5 DEF Analyze
  <2>4. Lists(Analyzing, {"lookup", "analysis"})
    BY HandlerSteps
  <2> HIDE DEF m
  <2>5. QED
    BY <1>b, <2>1, <2>2, <2>3, <2>4
<1>6. ASSUME NEW paper \in Papers, Reproduce(p, paper) PROVE Begins(p)
  <2>0. mode[p] = "console" /\ Idle(p) /\ Nothing \in Sessions /\ Sources(Nothing) = {}
    BY <1>6, NothingHeld DEF Reproduce
  <2>1. CASE Begin(p, h, Nothing, << >>)
    BY <1>b, <1>h, <1>o, <2>0, <2>1
  <2>2. CASE Begin(p, [h EXCEPT !["paper"] = paper], Reading(paper), Reproducing)
    <3> DEFINE m == [h EXCEPT !["paper"] = paper]
    <3>a. m = For(h, paper) /\ Begin(p, m, Reading(paper), Reproducing)
      BY <2>2 DEF For
    <3> HIDE DEF m
    <3>1. m \in Sessions /\ Sources(m) \subseteq Sources(memory[p]) \cup Sources(disk)
      BY <1>h, <3>a, HandlerVariables
    <3>2. Reading(paper) \in Sessions /\ Sources(Reading(paper)) = {} /\ Reading(paper)["paper"] = paper
      BY HandlerVariables
    <3>3. Lists(Reproducing, {"lookup", "analysis", "discovery", "strategy", "materialize"})
      BY LongHandlerSteps
    <3>4. QED
      BY <1>b, <2>0, <3>a, <3>1, <3>2, <3>3
  <2>3. QED
    BY <1>6, <2>1, <2>2 DEF Reproduce, h
<1>7. ASSUME NEW paper \in Papers, NEW s, NEW R, Command(p, paper, s), Lists(s, R),
             "lookup" \in R, R \cap Results # {} => "analysis" \in R, "analysis" \in R => "lookup" \in R,
             R \cap {"text", "meta", "model"} = {}, "strategy" \in R => "discovery" \in R
      PROVE  Begins(p)
  <2>1. Reading(paper) \in Sessions /\ Sources(Reading(paper)) = {} /\ Reading(paper)["paper"] = paper
    BY HandlerVariables
  <2>2. /\ mode' = [mode EXCEPT ![p] = "command"] /\ mode[p] # "console" /\ todo[p] = << >>
        /\ memory' = [memory EXCEPT ![p] = memory[p]]
        /\ todo' = [todo EXCEPT ![p] = s] /\ local' = [local EXCEPT ![p] = Reading(paper)] /\ mode'[p] # "off"
        /\ UNCHANGED <<disk, analyses, handle, cleans, history>>
        /\ commands < MaxCommands /\ commands' = commands + 1
    BY <1>0, <1>7 DEF Command
  <2>3. PICK m \in Sessions, l \in Sessions : m = memory[p] /\ l = Reading(paper)
    BY <1>0, <2>1
  <2>a. /\ m \in Sessions /\ Sources(m) \subseteq Sources(memory[p]) \cup Sources(disk) /\ Sources(l) = {}
        /\ l["paper"] \in Papers
    BY <1>0, <2>1, <2>3
  <2>b. memory' = [memory EXCEPT ![p] = m] /\ local' = [local EXCEPT ![p] = l]
    BY <2>2, <2>3
  <2>c. "strategy" \in R => "discovery" \in R
    BY <1>7
  <2>4. BeginsWith(p, m, l, s, R)
    BY <1>7, <2>2, <2>3, <2>a, <2>b, <2>c DEF BeginsWith
  <2>5. QED
    BY <2>4 DEF Begins
<1>8. ASSUME NEW paper \in Papers, Command(p, paper, <<"lookup">>) PROVE Begins(p)
  <2>1. Lists(<<"lookup">>, {"lookup"}) /\ {"lookup"} \cap Results = {}
    BY <1>w, HandlerSteps
  <2>2. QED
    BY <1>7, <1>8, <2>1
<1>9. ASSUME NEW paper \in Papers, Command(p, paper, Reproducing) PROVE Begins(p)
  <2>1. Lists(Reproducing, {"lookup", "analysis", "discovery", "strategy", "materialize"})
    BY LongHandlerSteps
  <2>2. QED
    BY <1>7, <1>9, <2>1
<1>10. QED
  BY <1>1, <1>2, <1>3, <1>4, <1>5, <1>6, <1>8, <1>9

\* The step at hand is one of those left, and comes before the others.
LEMMA StepsLeft ==
    ASSUME Types, NEW p \in Procs, Shaped(p)
    PROVE  /\ todo[p] \in Seq(Steps) /\ Range(todo[p]) \subseteq Steps /\ (todo[p] = << >> <=> Range(todo[p]) = {})
           /\ todo[p] # << >> => /\ Head(todo[p]) \in Range(todo[p])
                                 /\ Lists(Tail(todo[p]), Range(todo[p]) \ {Head(todo[p])})
                                 /\ \A x \in Range(todo[p]) : x = Head(todo[p]) \/ Place[Head(todo[p])] < Place[x]
<1>1. Lists(todo[p], Range(todo[p]))
  BY DEF Lists, Shaped, Types
<1>2. QED
  BY <1>1, ListFacts DEF Lists

\* How a command ends.
LEMMA CommandsStop ==
    ASSUME Types, NEW p \in Procs, Shaped(p), End(p) \/ Fail(p) \/ LookupTorn(p) \/ Materialize(p)
    PROVE  Stops(p)
<1>0. /\ handle \in [Procs -> {"closed", "open", "shared", "unlinked"}] /\ mixed \in BOOLEAN
      /\ (handle[p] # "closed" => WriteStep(p))
  BY DEF Types, TypeOK, Shaped
<1>1. CASE End(p)
  BY <1>0, <1>1 DEF End, Stops
<1>2. ASSUME Raise(p), handle[p] = "closed", ~Parsing(p)
      PROVE  Stops(p)
  <2>1. /\ todo' = [todo EXCEPT ![p] = << >>] /\ local' = [local EXCEPT ![p] = Nothing]
        /\ UNCHANGED <<mode, handle, commands, cleans, disk, analyses, memory, raced, mixed>>
    BY <1>2 DEF Raise, Continue, history
  <2>2. handle' = [handle EXCEPT ![p] = "closed"]
    BY <1>0, <1>2, <2>1
  <2>3. QED
    BY <1>0, <1>2, <2>1, <2>2 DEF Stops
<1>3. CASE Fail(p)
  <2>1. handle[p] = "closed" /\ ~Parsing(p)
    BY <1>3 DEF Fail, Parsing, AtStep
  <2>2. QED
    BY <1>2, <1>3, <2>1 DEF Fail
<1>4. CASE LookupTorn(p)
  <2>1. handle[p] = "closed" /\ ~Parsing(p)
    BY <1>0, <1>4 DEF LookupTorn, Parsing, AtStep, WriteStep, Written, Results
  <2>2. QED
    BY <1>2, <1>4, <2>1 DEF LookupTorn
<1>5. CASE Materialize(p)
  <2>1. todo[p] # << >> /\ Head(todo[p]) = "materialize"
    BY <1>5 DEF Materialize, AtStep
  <2>2. Tail(todo[p]) = << >>
    <3>1. \A x \in Steps : ~(Place["materialize"] < Place[x])
      BY Places DEF Steps, Before, Results
    <3>2. Lists(Tail(todo[p]), {}) \/ \E x \in Range(todo[p]) : x # Head(todo[p])
      BY <2>1, StepsLeft
    <3>3. Lists(Tail(todo[p]), {})
      BY <2>1, <3>1, <3>2, StepsLeft
    <3>4. QED
      BY <3>3, ListFacts
  <2>3. handle[p] = "closed" /\ ~Parsing(p)
    BY <1>0, <2>1 DEF Parsing, AtStep, WriteStep, Written, Results
  <2>4. Raise(p)
    BY <1>5, <2>2 DEF Materialize, Raise
  <2>5. QED
    BY <1>2, <2>3, <2>4
<1>6. QED
  BY <1>1, <1>3, <1>4, <1>5

-----------------------------------------------------------------------------
(* The steps of a command.                                                 *)

\* Which step is next is settled by which are left.
Fitting(R) ==
    /\ R \cap Results # {} /\ R \cap Before # {} => "analysis" \in R
    /\ "text" \in R => "meta" \in R
    /\ "meta" \in R => "model" \in R
    /\ "lookup" \in R => R \cap {"text", "meta", "model"} = {}

\* The step that is next.
LEMMA NextStep ==
    ASSUME NEW s, NEW R, Lists(s, R), Fitting(R)
    PROVE  LET Is(x) == s # << >> /\ Head(s) = x
           IN  /\ \A x : Is(x) => x \in R
               /\ Is("lookup") <=> "lookup" \in R
               /\ Is("text") <=> "text" \in R
               /\ Is("meta") <=> "meta" \in R /\ "text" \notin R
               /\ Is("model") <=> "model" \in R /\ "meta" \notin R
               /\ \A f \in Results : Is(f) => R \cap Before = {}
               /\ Is("discovery") \/ Is("strategy") => "analysis" \notin R
               /\ Is("strategy") => "discovery" \notin R
<1>1. /\ R \subseteq Steps /\ (s = << >> <=> R = {})
      /\ R # {} => Head(s) \in R /\ \A x \in R : x = Head(s) \/ Place[Head(s)] < Place[x]
  BY ListFacts
<1>2. \A x : s # << >> /\ Head(s) = x => x \in R /\ \A y \in R : y = x \/ Place[x] < Place[y]
  BY <1>1
<1>3. "lookup" \in R => s # << >> /\ Head(s) = "lookup"
  <2>1. ASSUME "lookup" \in R, NEW x \in Steps, Place[x] < Place["lookup"] PROVE FALSE
    BY <2>1, Places DEF Steps, Before, Results
  <2>2. QED
    BY <1>1, <2>1
<1>4. "text" \in R => s # << >> /\ Head(s) = "text"
  <2>1. ASSUME NEW x \in Steps, Place[x] < Place["text"] PROVE x = "lookup"
    BY <2>1, Places DEF Steps, Before, Results
  <2>2. QED
    BY <1>1, <2>1 DEF Fitting
<1>5. "meta" \in R /\ "text" \notin R => s # << >> /\ Head(s) = "meta"
  <2>1. ASSUME NEW x \in Steps, Place[x] < Place["meta"] PROVE x \in {"lookup", "text"}
    BY <2>1, Places DEF Steps, Before, Results
  <2>2. QED
    BY <1>1, <2>1 DEF Fitting
<1>6. "model" \in R /\ "meta" \notin R => s # << >> /\ Head(s) = "model"
  <2>1. ASSUME NEW x \in Steps, Place[x] < Place["model"] PROVE x \in {"lookup", "text", "meta"}
    BY <2>1, Places DEF Steps, Before, Results
  <2>2. QED
    BY <1>1, <2>1 DEF Fitting
<1>7. /\ \A f \in Results, x \in Before : x # f /\ ~(Place[f] < Place[x])
      /\ ~(Place["meta"] < Place["text"]) /\ ~(Place["model"] < Place["meta"])
      /\ ~(Place["discovery"] < Place["analysis"]) /\ ~(Place["strategy"] < Place["analysis"])
      /\ ~(Place["strategy"] < Place["discovery"])
  BY Places DEF Before, Results
<1>8. QED
  BY <1>2, <1>3, <1>4, <1>5, <1>6, <1>7

\* Where a process is.
Left(p) == Range(todo[p])
Where(p) ==
    /\ \A x : AtStep(p, x) => Has(p, x)
    /\ AtStep(p, "lookup") <=> Has(p, "lookup")
    /\ AtStep(p, "text") <=> Has(p, "text")
    /\ AtStep(p, "meta") <=> Has(p, "meta") /\ ~Has(p, "text")
    /\ AtStep(p, "model") <=> Has(p, "model") /\ ~Has(p, "meta")
    /\ \A f \in Results : AtStep(p, f) => \A x \in Before : ~Has(p, x)
    /\ AtStep(p, "discovery") \/ AtStep(p, "strategy") => ~Has(p, "analysis")
    /\ AtStep(p, "strategy") => ~Has(p, "discovery")
    /\ Saving(p) <=> Has(p, "analysis") /\ ~Has(p, "lookup")
    /\ Parsing(p) <=> (Has(p, "meta") /\ ~Has(p, "text")) \/ (Has(p, "text") /\ handle[p] # "closed")

\* A process is where its list says, before a step and after it.
LEMMA WhereIs ==
    ASSUME NEW p \in Procs
    PROVE  /\ Types /\ Shaped(p) => Where(p)
           /\ Types' /\ Shaped(p)' => Where(p)'
<1>1. ASSUME Types, Shaped(p) PROVE Where(p)
  <2>1. Lists(todo[p], Left(p)) /\ Fitting(Left(p))
    BY <1>1 DEF Types, Shaped, Lists, Left, Fitting, Has, Keeper, Results, Before
  <2>2. QED
    BY <2>1, NextStep DEF Where, AtStep, Has, Left, Saving, Parsing
<1>2. ASSUME Types', Shaped(p)' PROVE Where(p)'
  <2>1. Lists(todo'[p], Left(p)') /\ Fitting(Left(p)')
    BY <1>2 DEF Types, Shaped, Lists, Left, Fitting, Has, Keeper, Results, Before
  <2>2. QED
    BY <2>1, NextStep DEF Where, AtStep, Has, Left, Saving, Parsing
<1>3. QED
  BY <1>1, <1>2

\* A process goes on to other steps with other variables.
Turns(p, l, R) ==
    /\ \E s : Lists(s, R) /\ todo' = [todo EXCEPT ![p] = s]
    /\ local' = [local EXCEPT ![p] = l]

\* Nothing changes for the others.
LEMMA OthersWait ==
    ASSUME Types, NEW p \in Procs, NEW l, NEW R, Turns(p, l, R)
    PROVE  /\ todo' \in [Procs -> Seq(Steps)] /\ Increasing(todo'[p]) /\ Range(todo'[p]) = R /\ local'[p] = l
           /\ \A x : Has(p, x)' <=> x \in R
           /\ \A q \in Procs \ {p} : todo'[q] = todo[q] /\ local'[q] = local[q]
<1>1. PICK s : Lists(s, R) /\ todo' = [todo EXCEPT ![p] = s]
  BY DEF Turns
<1>2. local' = [local EXCEPT ![p] = l] /\ local \in [Procs -> Sessions] /\ todo \in [Procs -> Seq(Steps)]
  BY DEF Turns, Types
<1>3. todo'[p] = s /\ s \in Seq(Steps) /\ Increasing(s) /\ Range(s) = R
  BY <1>1, <1>2 DEF Lists
<1>4. \A x : Has(p, x)' <=> x \in R
  BY <1>3 DEF Has
<1>5. QED
  BY <1>1, <1>2, <1>3, <1>4

\* What a value adds to what is stood on.
Adds(f, v) ==
    IF f \in {"analysis", "discovery"} THEN {v} \ {None, Torn}
    ELSE IF f = "strategy" /\ v \notin {None, Torn} THEN {v.analysis, v.discovery} \ {None, Torn}
    ELSE {}

\* A result is replaced.
LEMMA Replaced ==
    ASSUME NEW m, NEW f, NEW v, NEW n, n[f] = v, \A g \in Results \ {f} : n[g] = m[g]
    PROVE  /\ Sources(n) \subseteq Sources(m) \cup Adds(f, v)
           /\ f \notin Results => Sources(n) = Sources(m)
<1>1. n[f] = v /\ \A g \in Results \ {f} : n[g] = m[g]
  OBVIOUS
<1>2. Results = {"analysis", "discovery", "strategy"}
  BY DEF Results
<1>3. CASE f \notin Results
  <2>1. n["analysis"] = m["analysis"] /\ n["discovery"] = m["discovery"] /\ n["strategy"] = m["strategy"]
    BY <1>1, <1>2, <1>3
  <2>2. QED
    BY <2>1 DEF Sources
<1>4. CASE f = "analysis"
  <2>1. n["analysis"] = v /\ n["discovery"] = m["discovery"] /\ n["strategy"] = m["strategy"]
    BY <1>1, <1>2, <1>4
  <2>2. Sources(n) \subseteq Sources(m) \cup Adds(f, v)
    BY <1>4, <2>1 DEF Sources, Adds
  <2>3. QED
    BY <1>2, <1>4, <2>2
<1>5. CASE f = "discovery"
  <2>1. n["analysis"] = m["analysis"] /\ n["discovery"] = v /\ n["strategy"] = m["strategy"]
    BY <1>1, <1>2, <1>5
  <2>2. Sources(n) \subseteq Sources(m) \cup Adds(f, v)
    BY <1>5, <2>1 DEF Sources, Adds
  <2>3. QED
    BY <1>2, <1>5, <2>2
<1>6. CASE f = "strategy"
  <2>1. n["analysis"] = m["analysis"] /\ n["discovery"] = m["discovery"] /\ n["strategy"] = v
    BY <1>1, <1>2, <1>6
  <2>2. Sources(n) \subseteq Sources(m) \cup Adds(f, v)
    BY <1>6, <2>1 DEF Sources, Adds
  <2>3. QED
    BY <1>2, <1>6, <2>2
<1>7. QED
  BY <1>2, <1>3, <1>4, <1>5, <1>6

\* What a step writes is of its kind, and stands on what its handler has in hand.
LEMMA WhatIsWritten ==
    ASSUME Types, NEW p \in Procs, Shaped(p), Knows(p), NEW f \in Written, AtStep(p, f)
    PROVE  /\ f = "text" => Contents(p, f) = local[p]["text"] /\ Contents(p, f) \in Papers \cup {Torn}
           /\ f = "meta" => Contents(p, f) = local[p]["paper"] /\ Contents(p, f) \in Papers
           /\ f = "analysis" => Contents(p, f) = local[p]["analysis"]
           /\ f = "discovery" => Contents(p, f) = local[p]["analysis"]
           /\ f \in {"analysis", "discovery"} => Contents(p, f) \in Analyses
           /\ f = "strategy" => Contents(p, f) \in Strategies
           /\ f \in Results => Keeper(p) /\ ~Unmade(p) /\ local[p]["analysis"] \in Analyses
           /\ Adds(f, Contents(p, f)) \subseteq Sources(local[p])
<1>1. Where(p) /\ Written = Results \cup {"text", "meta"} /\ Results = {"analysis", "discovery", "strategy"}
  BY WhereIs DEF Written, Results
<1>2. f \in Results => Keeper(p) /\ ~Unmade(p) /\ local[p]["analysis"] \in Analyses
  BY <1>1, Zenon DEF Where, Keeper, Unmade, Knows, Before
<1>3. f = "strategy" => local[p]["discovery"] \in Analyses
  BY <1>1 DEF Where, Knows
<1>4. None \notin Analyses /\ Torn \notin Analyses
  <2>1. Analyses \subseteq Nat
    BY LenProperties DEF Types, TypeOK, Analyses
  <2>2. QED
    BY <2>1, MarksAssumption
<1>5. CASE f = "text"
  <2>1. Contents(p, f) = local[p]["text"] /\ Adds(f, Contents(p, f)) = {}
    BY <1>5 DEF Contents, Adds
  <2>2. local[p]["text"] \in Papers \cup {Torn}
    BY <1>1, <1>5 DEF Where, Shaped, Knows
  <2>3. QED
    BY <1>1, <1>5, <2>1, <2>2
<1>6. CASE f = "meta"
  <2>1. Contents(p, f) = local[p]["paper"] /\ Adds(f, Contents(p, f)) = {}
    BY <1>6 DEF Contents, Adds
  <2>2. local[p]["paper"] \in Papers
    BY <1>1, <1>6 DEF Where, Before, Knows
  <2>3. QED
    BY <1>1, <1>6, <2>1, <2>2
<1>7. CASE f = "analysis"
  <2>1. Contents(p, f) = local[p]["analysis"] /\ Adds(f, Contents(p, f)) \subseteq {local[p]["analysis"]}
    BY <1>7 DEF Contents, Adds
  <2>2. QED
    BY <1>1, <1>2, <1>4, <1>7, <2>1 DEF Sources
<1>8. CASE f = "discovery"
  <2>1. Contents(p, f) = local[p]["analysis"] /\ Adds(f, Contents(p, f)) \subseteq {local[p]["analysis"]}
    BY <1>8 DEF Contents, Adds
  <2>2. QED
    BY <1>1, <1>2, <1>4, <1>8, <2>1 DEF Sources
<1>9. CASE f = "strategy"
  <2>1. /\ Contents(p, f) = [analysis |-> local[p]["analysis"], discovery |-> local[p]["discovery"]]
        /\ Adds(f, Contents(p, f)) \subseteq {local[p]["analysis"], local[p]["discovery"]}
    BY <1>9 DEF Contents, Adds
  <2>2. QED
    BY <1>1, <1>2, <1>3, <1>4, <1>9, <2>1 DEF Sources, Strategies
<1>10. QED
  BY <1>1, <1>5, <1>6, <1>7, <1>8, <1>9

\* A look-up that finds an analysis.
FindsWith(p, l) ==
    /\ Has(p, "lookup") /\ disk["analysis"] \in Analyses
    /\ Turns(p, l, Left(p) \ {"lookup"}) /\ l \in Sessions
    /\ Sources(l) \subseteq Sources(local[p]) \cup {disk["analysis"]}
    /\ Left(p) # {"lookup"} => l["analysis"] = disk["analysis"] /\ l["discovery"] = local[p]["discovery"]
    /\ UNCHANGED <<disk, analyses, mode, memory, handle, commands, cleans, history>>

\* One that finds none: the model is asked, with the text there is or after parsing.
AsksWith(p, l, M) ==
    /\ Has(p, "lookup") /\ disk["analysis"] = None
    /\ M = {"model"} \/ M = {"text", "meta", "model"}
    /\ Turns(p, l, (Left(p) \ {"lookup"}) \cup M) /\ l \in Sessions
    /\ Sources(l) = Sources(local[p]) /\ l["paper"] = local[p]["paper"] /\ l["discovery"] = local[p]["discovery"]
    /\ l["text"] \in Papers \cup {Torn}
    /\ l["text"] = l["paper"] \/ (disk["meta"] = l["paper"] /\ disk["text"] = l["text"] /\ l["text"] # None)
    /\ {raced', mixed'} \subseteq BOOLEAN
    /\ ~raced' => ~raced /\ (Has(p, "analysis") => \A q \in Others(p) : ~Saving(q))
    /\ ~mixed' => ~mixed /\ \A q \in Others(p) : ~Parsing(q)
    /\ UNCHANGED <<disk, analyses, mode, memory, handle, commands, cleans>>

\* The model answers.
AnswersWith(p, l) ==
    /\ AtStep(p, "model") /\ Len(analyses) < MaxAnalyses
    /\ analyses' = Append(analyses, [paper |-> local[p]["paper"], text |-> local[p]["text"]])
    /\ Turns(p, l, Left(p) \ {"model"}) /\ l \in Sessions'
    /\ Sources(l) \subseteq Sources(local[p]) \cup {Len(analyses) + 1}
    /\ Left(p) # {"model"} => l["analysis"] = Len(analyses) + 1 /\ l["discovery"] = local[p]["discovery"]
    /\ UNCHANGED <<disk, mode, memory, handle, commands, cleans, history>>

\* A file is truncated, to be written.
OpensWith(p, f, l, m) ==
    /\ f \in Written /\ AtStep(p, f) /\ handle[p] = "closed"
    /\ disk' = [disk EXCEPT ![f] = Torn]
    /\ local' = [local EXCEPT ![p] = l] /\ memory' = [memory EXCEPT ![p] = m] /\ {l, m} \subseteq Sessions
    /\ l["paper"] = local[p]["paper"] /\ l["text"] = local[p]["text"] /\ l["analysis"] = local[p]["analysis"]
    /\ IF f = "discovery" THEN l["discovery"] \in Analyses ELSE l["discovery"] = local[p]["discovery"]
    /\ Sources(l) \subseteq Sources(local[p]) /\ Sources(m) \subseteq Sources(memory[p]) \cup Sources(local[p])
    /\ f \notin Results => Sources(l) = Sources(local[p]) /\ m = memory[p]
    /\ mode[p] # "console" => m = memory[p]
    /\ handle' \in [Procs -> {"closed", "open", "shared", "unlinked"}]
    /\ handle'[p] \in {"open", "shared"} /\ (SameFile(p) = {} => handle'[p] = "open")
    /\ \A q \in Others(p) : handle'[q] = handle[q] \/ (q \in SameFile(p) /\ handle'[q] = "shared")
    /\ mixed' \in BOOLEAN /\ (~mixed' => ~mixed /\ (f = "text" => \A q \in Others(p) : ~Parsing(q)))
    /\ UNCHANGED <<analyses, mode, todo, commands, cleans, raced>>

\* It is written, if it still has its name.
ClosesWith(p, f, l, v) ==
    /\ f \in Written /\ AtStep(p, f) /\ handle[p] # "closed"
    /\ Turns(p, l, Left(p) \ {f}) /\ l \in Sessions
    /\ l \in {local[p], Nothing} /\ (Left(p) # {f} => l = local[p])
    /\ v = Contents(p, f) \/ (v = Torn /\ handle[p] = "shared")
    /\ disk' = IF handle[p] = "unlinked" THEN disk ELSE [disk EXCEPT ![f] = v]
    /\ handle' = [handle EXCEPT ![p] = "closed"]
    /\ UNCHANGED <<analyses, mode, memory, commands, cleans, history>>

\* Continue, in these words.
LEMMA Continues ==
    ASSUME Types, NEW p \in Procs, NEW s, NEW R, Lists(s, R), NEW l, Continue(p, l, s)
    PROVE  /\ Turns(p, IF R = {} THEN Nothing ELSE l, R)
           /\ UNCHANGED <<mode, handle, commands, cleans>>
<1>1. s = << >> <=> R = {}
  BY ListFacts
<1>2. QED
  BY <1>1 DEF Continue, Turns

\* What a process may do.
Does(p) ==
    \/ Begins(p) \/ Stops(p)
    \/ \E l \in Sessions : FindsWith(p, l)
    \/ \E l \in Sessions, M \in SUBSET Before : AsksWith(p, l, M)
    \/ \E l \in Sessions' : AnswersWith(p, l)
    \/ \E f \in Written, l, m \in Sessions : OpensWith(p, f, l, m)
    \/ \E v : \E f \in Written, l \in Sessions : ClosesWith(p, f, l, v)

\* A session with another result, or another text.
Fits(f, v) ==
    v \in IF f = "paper" THEN Papers \cup {None}
          ELSE IF f \in {"analysis", "discovery"} THEN Analyses \cup {None}
          ELSE IF f = "strategy" THEN Strategies \cup {None}
          ELSE Papers \cup {None, Torn}
With(m, f, v) == [m EXCEPT ![f] = v]

\* It is a session, and stands on what it did and what it was given.
LEMMA SessionWith ==
    ASSUME Types, NEW m \in Sessions, NEW f \in Fields, NEW v, Fits(f, v), NEW n, n = With(m, f, v)
    PROVE  /\ n \in Sessions /\ n[f] = v /\ \A g \in Fields \ {f} : n[g] = m[g]
           /\ Sources(n) \subseteq Sources(m) \cup Adds(f, v)
           /\ f \notin Results => Sources(n) = Sources(m)
<1>0. n = [m EXCEPT ![f] = v]
  BY DEF With
<1>1. Analyses \subseteq Nat
  BY LenProperties DEF Types, TypeOK, Analyses
<1>2. v \in Values
  BY <1>1 DEF Fits, Values, Plans, Strategies
<1>3. m \in [Fields -> Values] /\ Results \subseteq Fields /\ {"paper", "analysis", "discovery", "strategy"} \subseteq Fields
  BY DEF Sessions, Fields, Results
<1>4. n \in [Fields -> Values] /\ n[f] = v /\ \A g \in Fields \ {f} : n[g] = m[g]
  BY <1>0, <1>2, <1>3
<1>5. Sources(n) \subseteq Sources(m) \cup Adds(f, v) /\ (f \notin Results => Sources(n) = Sources(m))
  <2>1. n[f] = v /\ \A g \in Results \ {f} : n[g] = m[g]
    BY <1>3, <1>4
  <2>2. QED
    BY <2>1, Replaced
<1>6. n["paper"] \in Papers \cup {None}
  BY <1>3, <1>4 DEF Fits, Sessions
<1>7. n["analysis"] \in Analyses \cup {None}
  BY <1>3, <1>4 DEF Fits, Sessions
<1>8. n["discovery"] \in Analyses \cup {None}
  BY <1>3, <1>4 DEF Fits, Sessions
<1>9. n["strategy"] \in Strategies \cup {None}
  BY <1>3, <1>4 DEF Fits, Sessions
<1>10. n \in Sessions
  BY <1>4, <1>6, <1>7, <1>8, <1>9 DEF Sessions
<1>11. QED
  BY <1>4, <1>5, <1>10

\* A look-up does one or the other.
LEMMA LookupDoes ==
    ASSUME Types, NEW p \in Procs, Shaped(p), Knows(p), Lookup(p)
    PROVE  \/ \E l \in Sessions : FindsWith(p, l)
           \/ \E l \in Sessions, M \in SUBSET Before : AsksWith(p, l, M)
<1> DEFINE rest == Tail(todo[p])
           paper == local[p]["paper"]
<1>1. Where(p) /\ Has(p, "lookup") /\ local[p] \in Sessions /\ Nothing \in Sessions /\ Sources(Nothing) = {}
  BY WhereIs, NothingHeld DEF Lookup, Where, Types
<1>2. Lists(rest, Left(p) \ {"lookup"}) /\ (Left(p) \ {"lookup"}) \cap Before = {}
  <2>1. Lists(rest, Left(p) \ {"lookup"})
    BY StepsLeft DEF Lookup, AtStep, Left
  <2>2. QED
    BY <1>1, <2>1 DEF Shaped, Has, Left, Before
<1>3. paper \in Papers /\ {raced, mixed} \subseteq BOOLEAN /\ disk["text"] \in Papers \cup {None, Torn}
  BY <1>1 DEF Knows, Before, Types, TypeOK
<1>4. {"analysis", "text", "paper", "discovery"} \subseteq Fields /\ Results = {"analysis", "discovery", "strategy"}
  BY DEF Fields, Results
<1> HIDE DEF rest, paper
<1>5. CASE disk["analysis"] # None
  <2>1. disk["analysis"] \in Analyses
    BY <1>5 DEF Lookup, Persisted, Types, TypeOK
  <2> DEFINE l == [local[p] EXCEPT !["analysis"] = disk["analysis"]]
             x == IF Left(p) \ {"lookup"} = {} THEN Nothing ELSE l
  <2>2. Continue(p, l, rest) /\ UNCHANGED <<disk, analyses, memory, history>>
    BY <1>5 DEF Lookup, Persisted, rest
  <2>a. l = With(local[p], "analysis", disk["analysis"])
    BY DEF With
  <2> HIDE DEF l
  <2>3. /\ l \in Sessions /\ l["analysis"] = disk["analysis"] /\ l["discovery"] = local[p]["discovery"]
        /\ Sources(l) \subseteq Sources(local[p]) \cup Adds("analysis", disk["analysis"])
    <3>1. Fits("analysis", disk["analysis"])
      BY <2>1 DEF Fits
    <3>2. QED
      BY <1>1, <1>4, <2>a, <3>1, SessionWith
  <2>4. Adds("analysis", disk["analysis"]) \subseteq {disk["analysis"]}
    BY DEF Adds
  <2>5. Turns(p, x, Left(p) \ {"lookup"}) /\ UNCHANGED <<mode, handle, commands, cleans>>
    BY <1>2, <2>2, Continues
  <2>6. x \in Sessions /\ Sources(x) \subseteq Sources(local[p]) \cup {disk["analysis"]}
    BY <1>1, <2>3, <2>4
  <2>7. Left(p) # {"lookup"} => x = l
    BY <1>1 DEF Has, Left
  <2> HIDE DEF x
  <2>8. FindsWith(p, x)
    BY <1>1, <2>1, <2>2, <2>3, <2>5, <2>6, <2>7 DEF FindsWith
  <2>9. QED
    BY <2>6, <2>8
<1>6. CASE disk["analysis"] = None
  <2>1. /\ raced' = (raced \/ ("analysis" \in Range(rest) /\ \E q \in Others(p) : Saving(q)))
        /\ mixed' = (mixed \/ \E q \in Others(p) : Parsing(q))
        /\ UNCHANGED <<disk, analyses, memory>>
    BY <1>6 DEF Lookup, Persisted, rest
  <2>2. /\ {raced', mixed'} \subseteq BOOLEAN
        /\ ~raced' => ~raced /\ (Has(p, "analysis") => \A q \in Others(p) : ~Saving(q))
        /\ ~mixed' => ~mixed /\ \A q \in Others(p) : ~Parsing(q)
    <3>1. "analysis" \in Range(rest) <=> Has(p, "analysis")
      BY <1>2 DEF Lists, Has, Left
    <3>2. QED
      BY <1>3, <2>1, <3>1
  <2>3. ASSUME NEW M \in SUBSET Before, M = {"model"} \/ M = {"text", "meta", "model"}, NEW s, NEW text \in Papers \cup {Torn},
               Lists(s, (Left(p) \ {"lookup"}) \cup M), Continue(p, [local[p] EXCEPT !["text"] = text], s),
               text = paper \/ (disk["meta"] = paper /\ disk["text"] = text /\ text # None)
        PROVE  \E l \in Sessions : AsksWith(p, l, M)
    <3> DEFINE l == [local[p] EXCEPT !["text"] = text]
    <3>a. l = With(local[p], "text", text)
      BY DEF With
    <3> HIDE DEF l
    <3>1. /\ l \in Sessions /\ l["text"] = text /\ l["discovery"] = local[p]["discovery"] /\ l["paper"] = paper
          /\ Sources(l) = Sources(local[p])
      <4>1. Fits("text", text)
        BY <2>3 DEF Fits
      <4>2. QED
        BY <1>1, <1>4, <3>a, <4>1, SessionWith DEF paper
    <3>2. Turns(p, l, (Left(p) \ {"lookup"}) \cup M) /\ UNCHANGED <<mode, handle, commands, cleans>>
      <4>1. (Left(p) \ {"lookup"}) \cup M # {}
        BY <2>3
      <4>2. Turns(p, IF (Left(p) \ {"lookup"}) \cup M = {} THEN Nothing ELSE l, (Left(p) \ {"lookup"}) \cup M)
            /\ UNCHANGED <<mode, handle, commands, cleans>>
        BY <2>3, Continues DEF l
      <4>3. QED
        BY <4>1, <4>2
    <3>3. AsksWith(p, l, M)
      BY <1>1, <1>6, <2>1, <2>2, <2>3, <3>1, <3>2 DEF AsksWith, paper
    <3>4. QED
      BY <3>1, <3>3
  <2>4. CASE Cached(paper) # None
    <3>1. disk["meta"] = paper /\ disk["text"] = Cached(paper)
      BY <2>4 DEF Cached
    <3>2. Continue(p, [local[p] EXCEPT !["text"] = Cached(paper)], <<"model">> \o rest)
      BY <1>6, <2>4 DEF Lookup, Persisted, rest, paper
    <3>3. Lists(<<"model">> \o rest, (Left(p) \ {"lookup"}) \cup {"model"})
      BY <1>2, LookupSteps
    <3>4. {"model"} \in SUBSET Before /\ Cached(paper) \in Papers \cup {Torn}
      BY <1>3, <2>4, <3>1 DEF Before
    <3>5. QED
      BY <2>3, <2>4, <3>1, <3>2, <3>3, <3>4
  <2>5. CASE Cached(paper) = None
    <3>1. Continue(p, [local[p] EXCEPT !["text"] = paper], <<"text", "meta", "model">> \o rest)
      BY <1>6, <2>5 DEF Lookup, Persisted, rest, paper
    <3>2. Lists(<<"text", "meta", "model">> \o rest, (Left(p) \ {"lookup"}) \cup {"text", "meta", "model"})
      BY <1>2, LookupSteps
    <3>3. {"text", "meta", "model"} \in SUBSET Before
      BY DEF Before
    <3>4. QED
      BY <1>3, <2>3, <3>1, <3>2, <3>3
  <2>6. QED
    BY <2>4, <2>5
<1>7. QED
  BY <1>5, <1>6

\* So does the model, once it answers.
LEMMA ModelDoes ==
    ASSUME Types, NEW p \in Procs, Shaped(p), Knows(p), Model(p)
    PROVE  \E l \in Sessions' : AnswersWith(p, l)
<1> DEFINE n == Len(analyses) + 1
           e == [paper |-> local[p]["paper"], text |-> local[p]["text"]]
           l == [local[p] EXCEPT !["analysis"] = n, !["text"] = None]
           x == IF Left(p) \ {"model"} = {} THEN Nothing ELSE l
<1>1. /\ local[p] \in Sessions /\ Nothing \in Sessions /\ Sources(Nothing) = {} /\ Len(analyses) \in Nat
      /\ analyses \in Seq([paper : Papers, text : Papers \cup {Torn}])
  BY NothingHeld, LenProperties DEF Types, TypeOK
<1>2. AtStep(p, "model") /\ Has(p, "model") /\ Where(p)
  BY WhereIs DEF Model, Where
<1>3. /\ analyses' = Append(analyses, e) /\ Len(analyses) < MaxAnalyses
      /\ UNCHANGED <<disk, memory, history>> /\ Continue(p, l, Tail(todo[p]))
  BY DEF Model
<1>4. Turns(p, x, Left(p) \ {"model"}) /\ UNCHANGED <<mode, handle, commands, cleans>>
  <2>1. Lists(Tail(todo[p]), Left(p) \ {"model"})
    BY <1>2, StepsLeft DEF AtStep, Left
  <2>2. QED
    BY <1>3, <2>1, Continues
<1>5. e \in [paper : Papers, text : Papers \cup {Torn}]
  BY <1>2 DEF Knows, Before
<1>6. n \in Nat /\ n \in Analyses' /\ Analyses \subseteq Analyses' /\ Strategies \subseteq Strategies'
  <2>1. Len(Append(analyses, e)) = n /\ Append(analyses, e) \in Seq([paper : Papers, text : Papers \cup {Torn}])
    BY <1>1, <1>5, AppendProperties
  <2>2. Analyses' = 1..n /\ Analyses = 1..Len(analyses)
    BY <1>1, <1>3, <2>1, LenProperties DEF Analyses
  <2>3. QED
    BY <1>1, <2>2 DEF Strategies
<1>7. {"analysis", "text", "paper", "discovery", "strategy"} \subseteq Fields /\ None \in Values /\ n \in Values
  BY <1>6 DEF Fields, Results, Values
<1> HIDE DEF n, e
<1>8. /\ l \in [Fields -> Values] /\ l["analysis"] = n /\ l["discovery"] = local[p]["discovery"]
      /\ l["strategy"] = local[p]["strategy"] /\ l["paper"] = local[p]["paper"]
  <2>1. local[p] \in [Fields -> Values]
    BY <1>1 DEF Sessions
  <2>2. QED
    BY <1>7, <2>1
<1> HIDE DEF l
<1>9. l \in Sessions' /\ Nothing \in Sessions'
  BY <1>1, <1>6, <1>8 DEF Sessions
<1>10. Sources(l) \subseteq Sources(local[p]) \cup {n}
  BY <1>8 DEF Sources
<1>11. Left(p) # {"model"} => x = l
  BY <1>2 DEF Has, Left
<1>12. x \in Sessions' /\ Sources(x) \subseteq Sources(local[p]) \cup {n}
  BY <1>1, <1>9, <1>10
<1> HIDE DEF x
<1>13. AnswersWith(p, x)
  BY <1>2, <1>3, <1>4, <1>8, <1>11, <1>12 DEF AnswersWith, n, e
<1>14. QED
  BY <1>12, <1>13

\* A file that is opened.
LEMMA TruncateDoes ==
    ASSUME Types, NEW p \in Procs, Shaped(p), Knows(p), Truncate(p)
    PROVE  \E f \in Written, l, m \in Sessions : OpensWith(p, f, l, m)
<1> DEFINE f == Head(todo[p])
           c == Contents(p, f)
           l == IF f = "meta" THEN local[p] ELSE [local[p] EXCEPT ![f] = c]
           m == IF Keeps(p) /\ f \in Results THEN [memory[p] EXCEPT ![f] = c] ELSE memory[p]
<1>1. f \in Written /\ AtStep(p, f) /\ handle[p] = "closed"
  BY DEF Truncate, WriteStep, AtStep
<1>2. /\ local \in [Procs -> Sessions] /\ memory \in [Procs -> Sessions] /\ local[p] \in Sessions /\ memory[p] \in Sessions
      /\ handle \in [Procs -> {"closed", "open", "shared", "unlinked"}] /\ {raced, mixed} \subseteq BOOLEAN
  BY DEF Types, TypeOK
<1>3. /\ f = "text" => c = local[p]["text"] /\ c \in Papers \cup {Torn}
      /\ f \in {"analysis", "discovery"} => c \in Analyses
      /\ f = "analysis" => c = local[p]["analysis"]
      /\ f = "strategy" => c \in Strategies
      /\ Adds(f, c) \subseteq Sources(local[p])
  BY <1>1, WhatIsWritten
<1>4. /\ disk' = [disk EXCEPT ![f] = Torn] /\ UNCHANGED <<analyses, mode, todo, commands, cleans, raced>>
      /\ mixed' = (mixed \/ (AtStep(p, "text") /\ \E q \in Others(p) : Parsing(q)))
      /\ local' = [local EXCEPT ![p] = l] /\ memory' = [memory EXCEPT ![p] = m]
  <2>1. /\ local' = IF f = "meta" THEN local ELSE [local EXCEPT ![p][f] = c]
        /\ memory' = IF Keeps(p) /\ f \in Results THEN [memory EXCEPT ![p][f] = c] ELSE memory
    BY DEF Truncate
  <2>2. local' = [local EXCEPT ![p] = l]
    BY <1>2, <2>1
  <2>3. memory' = [memory EXCEPT ![p] = m]
    BY <1>2, <2>1
  <2>4. QED
    BY <2>2, <2>3 DEF Truncate
<1>5. /\ handle' \in [Procs -> {"closed", "open", "shared", "unlinked"}]
      /\ handle'[p] \in {"open", "shared"} /\ (SameFile(p) = {} => handle'[p] = "open")
      /\ \A q \in Others(p) : handle'[q] = handle[q] \/ (q \in SameFile(p) /\ handle'[q] = "shared")
  <2>1. handle' = [q \in Procs |->
                      IF q \in SameFile(p) \/ (q = p /\ SameFile(p) # {}) THEN "shared"
                      ELSE IF q = p THEN "open" ELSE handle[q]]
    BY DEF Truncate
  <2>2. p \notin SameFile(p) /\ p \notin Others(p) /\ Others(p) \subseteq Procs
    BY DEF SameFile, Others
  <2>3. QED
    BY <1>2, <2>1, <2>2
<1>6. f # "meta" => f \in Fields /\ f # "paper"
  BY <1>1 DEF Written, Fields, Results
<1>7. Results = {"analysis", "discovery", "strategy"} /\ "text" \in Fields /\ {"paper", "analysis", "discovery"} \subseteq Fields
  BY DEF Results, Fields
<1>8. f # "meta" => Fits(f, c)
  BY <1>1, <1>3 DEF Fits, Written, Results
<1> HIDE DEF f, c
<1>9. /\ l \in Sessions /\ l["paper"] = local[p]["paper"] /\ l["text"] = local[p]["text"]
      /\ l["analysis"] = local[p]["analysis"]
      /\ IF f = "discovery" THEN l["discovery"] \in Analyses ELSE l["discovery"] = local[p]["discovery"]
      /\ Sources(l) \subseteq Sources(local[p]) /\ (f \notin Results => Sources(l) = Sources(local[p]))
  <2>1. CASE f = "meta"
    BY <1>2, <2>1
  <2>2. CASE f # "meta"
    <3>1. l = With(local[p], f, c)
      BY <2>2 DEF With
    <3> HIDE DEF l
    <3>a. f \in Fields /\ Fits(f, c) /\ local[p] \in Sessions
      BY <1>2, <1>6, <1>8, <2>2
    <3>2. /\ l \in Sessions /\ l[f] = c /\ \A g \in Fields \ {f} : l[g] = local[p][g]
          /\ Sources(l) \subseteq Sources(local[p]) \cup Adds(f, c)
          /\ f \notin Results => Sources(l) = Sources(local[p])
      BY <3>a, <3>1, SessionWith
    <3>3. QED
      BY <1>3, <1>6, <1>7, <2>2, <3>2
  <2>3. QED
    BY <2>1, <2>2
<1>10. /\ m \in Sessions /\ Sources(m) \subseteq Sources(memory[p]) \cup Sources(local[p])
       /\ (f \notin Results => m = memory[p]) /\ (mode[p] # "console" => m = memory[p])
  <2>1. CASE ~(Keeps(p) /\ f \in Results)
    BY <1>2, <2>1
  <2>2. CASE Keeps(p) /\ f \in Results
    <3>1. m = With(memory[p], f, c) /\ f # "meta" /\ mode[p] = "console"
      BY <1>7, <2>2 DEF Keeps, With
    <3> HIDE DEF m
    <3>a. f \in Fields /\ Fits(f, c) /\ memory[p] \in Sessions
      BY <1>2, <1>6, <1>8, <3>1
    <3>2. m \in Sessions /\ Sources(m) \subseteq Sources(memory[p]) \cup Adds(f, c)
      BY <3>a, <3>1, SessionWith
    <3>3. QED
      BY <1>3, <2>2, <3>1, <3>2
  <2>3. QED
    BY <2>1, <2>2
<1> HIDE DEF l, m
<1>11. mixed' \in BOOLEAN /\ (~mixed' => ~mixed /\ (f = "text" => \A q \in Others(p) : ~Parsing(q)))
  BY <1>1, <1>2, <1>4
<1>12. OpensWith(p, f, l, m)
  BY <1>1, <1>4, <1>5, <1>9, <1>10, <1>11 DEF OpensWith
<1>13. QED
  BY <1>1, <1>9, <1>10, <1>12

\* And one that is written.
LEMMA WriteDoes ==
    ASSUME Types, NEW p \in Procs, Shaped(p), Write(p)
    PROVE  \E v : \E f \in Written, l \in Sessions : ClosesWith(p, f, l, v)
<1> DEFINE f == Head(todo[p])
           l == IF Tail(todo[p]) = << >> THEN Nothing ELSE local[p]
<1>1. f \in Written /\ AtStep(p, f) /\ handle[p] # "closed"
  BY DEF Write, WriteStep, AtStep
<1>2. PICK v \in {Contents(p, f)} \cup (IF handle[p] = "shared" THEN {Torn} ELSE {}) :
          disk' = IF handle[p] = "unlinked" THEN disk ELSE [disk EXCEPT ![f] = v]
  BY DEF Write
<1>3. Lists(Tail(todo[p]), Left(p) \ {f}) /\ f \in Left(p)
  BY <1>1, StepsLeft DEF AtStep, Left
<1>4. l \in Sessions /\ l \in {local[p], Nothing} /\ (Left(p) # {f} => l = local[p])
  <2>1. Tail(todo[p]) = << >> <=> Left(p) \ {f} = {}
    BY <1>3, ListFacts
  <2>2. local[p] \in Sessions /\ Nothing \in Sessions
    BY NothingHeld DEF Types
  <2>3. QED
    BY <1>3, <2>1, <2>2
<1>5. Turns(p, l, Left(p) \ {f})
  <2>1. /\ todo' = [todo EXCEPT ![p] = Tail(@)]
        /\ local' = [local EXCEPT ![p] = IF Tail(todo[p]) = << >> THEN Nothing ELSE @]
        /\ local \in [Procs -> Sessions] /\ todo \in [Procs -> Seq(Steps)]
    BY DEF Write, Types
  <2>2. todo' = [todo EXCEPT ![p] = Tail(todo[p])] /\ local' = [local EXCEPT ![p] = l]
    BY <2>1
  <2>3. QED
    BY <1>3, <2>2 DEF Turns
<1>6. handle' = [handle EXCEPT ![p] = "closed"] /\ UNCHANGED <<analyses, mode, memory, commands, cleans, history>>
  BY DEF Write
<1> HIDE DEF f, l
<1>7. ClosesWith(p, f, l, v)
  BY <1>1, <1>2, <1>4, <1>5, <1>6 DEF ClosesWith
<1>8. QED
  BY <1>1, <1>4, <1>7

\* Every step of the system.
LEMMA StepKinds ==
    ASSUME Types, \A p \in Procs : Shaped(p) /\ Knows(p), [Next]_vars
    PROVE  \/ \E p \in Procs : Does(p)
           \/ Clean
           \/ UNCHANGED vars
<1>1. ASSUME NEW p \in Procs,
             \/ OpenConsole(p) \/ End(p)
             \/ Discover(p) \/ Plan(p) \/ PlanAll(p, None)
             \/ \E paper \in Papers :
                   \/ Analyze(p, paper) \/ PlanAll(p, paper) \/ Reproduce(p, paper)
                   \/ Command(p, paper, <<"lookup">>) \/ Command(p, paper, Reproducing)
             \/ Fail(p) \/ Lookup(p) \/ LookupTorn(p) \/ Model(p)
             \/ Truncate(p) \/ Write(p) \/ Materialize(p)
      PROVE  Does(p)
  <2>1. CASE \/ OpenConsole(p) \/ Discover(p) \/ Plan(p) \/ PlanAll(p, None)
             \/ \E paper \in Papers : \/ Analyze(p, paper) \/ PlanAll(p, paper) \/ Reproduce(p, paper)
                                      \/ Command(p, paper, <<"lookup">>) \/ Command(p, paper, Reproducing)
    <3>1. Begins(p)
      BY <2>1, CommandsBegin
    <3>2. QED
      BY <3>1 DEF Does
  <2>2. CASE End(p) \/ Fail(p) \/ LookupTorn(p) \/ Materialize(p)
    BY <2>2, CommandsStop DEF Does
  <2>3. CASE Lookup(p)
    BY <2>3, LookupDoes DEF Does
  <2>4. CASE Model(p)
    BY <2>4, ModelDoes DEF Does
  <2>5. CASE Truncate(p)
    BY <2>5, TruncateDoes DEF Does
  <2>6. CASE Write(p)
    BY <2>6, WriteDoes DEF Does
  <2>7. QED
    BY <1>1, <2>1, <2>2, <2>3, <2>4, <2>5, <2>6
<1>2. QED
  BY <1>1 DEF Next

-----------------------------------------------------------------------------
(* Types.                                                                  *)

DiskTyped ==
    /\ disk \in [Written -> Values]
    /\ disk["text"] \in Papers \cup {None, Torn} /\ disk["meta"] \in Papers \cup {None, Torn}
    /\ disk["analysis"] \in Analyses \cup {None, Torn} /\ disk["discovery"] \in Analyses \cup {None, Torn}
    /\ disk["strategy"] \in Strategies \cup {None, Torn}
Processes ==
    /\ mode \in [Procs -> {"off", "console", "command"}]
    /\ memory \in [Procs -> Sessions] /\ local \in [Procs -> Sessions] /\ todo \in [Procs -> Seq(Steps)]
    /\ handle \in [Procs -> {"closed", "open", "shared", "unlinked"}]
    /\ \A p \in Procs : mode[p] = "off" => todo[p] = << >>
Answers == analyses \in Seq([paper : Papers, text : Papers \cup {Torn}])
Counters == commands \in 0..MaxCommands /\ cleans \in 0..MaxCleans /\ {raced, mixed} \subseteq BOOLEAN

\* The types in four parts.
LEMMA TypeParts == Types <=> DiskTyped /\ Processes /\ Answers /\ Counters
<1>1. Types => DiskTyped /\ Processes /\ Answers /\ Counters
  BY DEF Types, TypeOK, DiskTyped, Processes, Answers, Counters
<1>2. ASSUME DiskTyped, Processes, Answers, Counters PROVE Types
  <2>1. ASSUME NEW p \in Procs
        PROVE  /\ mode[p] \in {"off", "console", "command"} /\ memory[p] \in Sessions /\ local[p] \in Sessions
               /\ handle[p] \in {"closed", "open", "shared", "unlinked"} /\ (mode[p] = "off" => todo[p] = << >>)
    BY <1>2 DEF Processes
  <2>2. \A p \in Procs : \A m \in {memory[p], local[p]} :
           /\ m["paper"] \in Papers \cup {None}
           /\ m["analysis"] \in Analyses \cup {None} /\ m["discovery"] \in Analyses \cup {None}
           /\ m["strategy"] \in Strategies \cup {None}
    BY <2>1 DEF Sessions
  <2>3. TypeOK
    BY <1>2, <2>1, <2>2 DEF TypeOK, DiskTyped, Answers, Counters
  <2>4. QED
    BY <1>2, <2>3 DEF Types, DiskTyped, Processes
<1>3. QED
  BY <1>1, <1>2

\* More analyses, more sessions.
LEMMA MoreAnalyses ==
    /\ analyses' = analyses => Sessions' = Sessions /\ Analyses' = Analyses /\ Strategies' = Strategies
    /\ Analyses \subseteq Analyses' => Sessions \subseteq Sessions' /\ Strategies \subseteq Strategies'
<1>1. analyses' = analyses => Sessions' = Sessions /\ Analyses' = Analyses /\ Strategies' = Strategies
  BY DEF Sessions, Analyses, Strategies
<1>2. ASSUME Analyses \subseteq Analyses' PROVE Sessions \subseteq Sessions' /\ Strategies \subseteq Strategies'
  <2>1. Strategies \subseteq Strategies'
    BY <1>2 DEF Strategies
  <2>2. QED
    BY <1>2, <2>1 DEF Sessions
<1>3. QED
  BY <1>1, <1>2

\* One process changes.
Typed(p) ==
    /\ memory' \in [Procs -> Sessions'] /\ local' \in [Procs -> Sessions'] /\ todo' \in [Procs -> Seq(Steps)]
    /\ mode' \in [Procs -> {"off", "console", "command"}]
    /\ handle' \in [Procs -> {"closed", "open", "shared", "unlinked"}]
    /\ mode'[p] = "off" => todo'[p] = << >>
    /\ \A q \in Procs \ {p} : mode'[q] = mode[q] /\ todo'[q] = todo[q]

\* The steps keep the types.
LEMMA TypesStep ==
    ASSUME Types, \A p \in Procs : Shaped(p) /\ Knows(p), [Next]_vars
    PROVE  Types'
<1>1. DiskTyped /\ Processes /\ Answers /\ Counters
  BY TypeParts
<1>2. Types' <=> DiskTyped' /\ Processes' /\ Answers' /\ Counters'
  BY TypeParts, PTL
<1>d. ASSUME disk' = disk, Analyses \subseteq Analyses' PROVE DiskTyped'
  BY <1>1, <1>d, MoreAnalyses DEF DiskTyped
<1>s. \A p, l, R : p \in Procs /\ Turns(p, l, R) /\ l \in Sessions' /\ Sessions \subseteq Sessions'
          => todo' \in [Procs -> Seq(Steps)] /\ local' \in [Procs -> Sessions'] /\ \A q \in Procs \ {p} : todo'[q] = todo[q]
  <2>1. ASSUME NEW p \in Procs, NEW l, NEW R, Turns(p, l, R), l \in Sessions', Sessions \subseteq Sessions'
        PROVE  todo' \in [Procs -> Seq(Steps)] /\ local' \in [Procs -> Sessions'] /\ \A q \in Procs \ {p} : todo'[q] = todo[q]
    <3>1. local' = [local EXCEPT ![p] = l] /\ local \in [Procs -> Sessions]
      BY <1>1, <2>1 DEF Turns, Processes
    <3>2. local' \in [Procs -> Sessions']
      BY <2>1, <3>1
    <3>3. QED
      BY <2>1, <3>2, OthersWait
  <2>2. QED
    BY <2>1
<1>p. ASSUME NEW p \in Procs, Typed(p) PROVE Processes'
  BY <1>1, <1>p DEF Typed, Processes
<1>a. analyses' = analyses => Answers' /\ Analyses' = Analyses /\ Sessions' = Sessions /\ Strategies' = Strategies
  BY <1>1, MoreAnalyses DEF Answers
<1>c. ASSUME UNCHANGED <<commands, cleans>>, {raced', mixed'} \subseteq BOOLEAN PROVE Counters'
  BY <1>1, <1>c DEF Counters
<1>3. ASSUME NEW p \in Procs, Begins(p) PROVE Types'
  <2>1. PICK s, R : \E m, l \in Sessions : BeginsWith(p, m, l, s, R)
    BY <1>3 DEF Begins
  <2>2. PICK m \in Sessions, l \in Sessions : BeginsWith(p, m, l, s, R)
    BY <2>1
  <2>3. Turns(p, l, R) /\ UNCHANGED <<disk, analyses, handle, cleans, history>> /\ mode'[p] # "off"
        /\ mode' \in {mode, [mode EXCEPT ![p] = "console"], [mode EXCEPT ![p] = "command"]}
        /\ memory' = [memory EXCEPT ![p] = m]
        /\ commands' \in {commands} \cup {n \in {commands + 1} : commands < MaxCommands}
    BY <2>2 DEF BeginsWith, Turns
  <2>4. DiskTyped' /\ Answers'
    BY <1>a, <1>d, <2>3
  <2>5. Counters'
    <3>1. commands \in Nat /\ MaxCommands \in Nat
      BY <1>1, BoundsAssumption DEF Counters
    <3>2. commands' \in 0..MaxCommands
      BY <1>1, <2>3, <3>1 DEF Counters
    <3>3. QED
      BY <1>1, <2>3, <3>2 DEF Counters, history
  <2>6. Typed(p)
    <3>1. /\ mode' \in [Procs -> {"off", "console", "command"}]
          /\ \A q \in Procs \ {p} : mode'[q] = mode[q]
      BY <1>1, <2>3 DEF Processes
    <3>2. memory' \in [Procs -> Sessions'] /\ handle' \in [Procs -> {"closed", "open", "shared", "unlinked"}]
      BY <1>1, <1>a, <2>3 DEF Processes
    <3>3. QED
      BY <1>a, <1>s, <2>3, <3>1, <3>2 DEF Typed
  <2>7. QED
    BY <1>2, <1>p, <2>4, <2>5, <2>6
<1>4. ASSUME NEW p \in Procs, Stops(p) PROVE Types'
  <2>1. /\ todo' = [todo EXCEPT ![p] = << >>] /\ local' = [local EXCEPT ![p] = Nothing]
        /\ handle' = [handle EXCEPT ![p] = "closed"]
        /\ \/ UNCHANGED <<memory, mode>>
           \/ memory' = [memory EXCEPT ![p] = Nothing] /\ mode' = [mode EXCEPT ![p] = "off"]
        /\ UNCHANGED <<disk, analyses, commands, cleans, raced>> /\ mixed' \in BOOLEAN
    BY <1>4 DEF Stops
  <2>2. DiskTyped' /\ Answers' /\ Sessions' = Sessions /\ Nothing \in Sessions
    BY <1>a, <1>d, <2>1, NothingHeld
  <2>3. Counters'
    BY <1>1, <2>1 DEF Counters
  <2>4. Processes'
    <3>1. << >> \in Seq(Steps)
      BY SingleStep
    <3>2. memory' \in [Procs -> Sessions'] /\ local' \in [Procs -> Sessions']
      BY <1>1, <2>1, <2>2 DEF Processes
    <3>3. /\ todo' \in [Procs -> Seq(Steps)] /\ handle' \in [Procs -> {"closed", "open", "shared", "unlinked"}]
          /\ mode' \in [Procs -> {"off", "console", "command"}] /\ todo'[p] = << >>
          /\ \A q \in Procs \ {p} : mode'[q] = mode[q] /\ todo'[q] = todo[q]
      BY <1>1, <2>1, <3>1 DEF Processes
    <3>4. QED
      BY <1>p, <3>2, <3>3 DEF Typed
  <2>5. QED
    BY <1>2, <2>2, <2>3, <2>4
<1>5. ASSUME NEW p \in Procs, NEW l \in Sessions, NEW R, Turns(p, l, R), Has(p, "lookup"),
             UNCHANGED <<disk, analyses, mode, memory, handle, commands, cleans>>, {raced', mixed'} \subseteq BOOLEAN
      PROVE  Types'
  <2>1. DiskTyped' /\ Answers' /\ Sessions' = Sessions
    BY <1>a, <1>d, <1>5
  <2>2. mode[p] # "off"
    BY <1>1, <1>5, SingleStep DEF Processes, Has
  <2>3. Typed(p)
    <3>1. /\ memory' \in [Procs -> Sessions'] /\ handle' \in [Procs -> {"closed", "open", "shared", "unlinked"}]
          /\ mode' \in [Procs -> {"off", "console", "command"}] /\ mode'[p] # "off"
          /\ \A q \in Procs \ {p} : mode'[q] = mode[q]
      BY <1>1, <1>5, <2>1, <2>2 DEF Processes
    <3>2. QED
      BY <1>5, <1>s, <2>1, <3>1 DEF Typed
  <2>4. Counters'
    BY <1>1, <1>5 DEF Counters
  <2>5. QED
    BY <1>2, <1>p, <2>1, <2>3, <2>4
<1>6. ASSUME NEW p \in Procs, NEW l \in Sessions, FindsWith(p, l) PROVE Types'
  <2>1. {raced', mixed'} \subseteq BOOLEAN
    BY <1>1, <1>6 DEF FindsWith, Counters, history
  <2>2. QED
    BY <1>5, <1>6, <2>1 DEF FindsWith
<1>7. ASSUME NEW p \in Procs, NEW l \in Sessions, NEW M, AsksWith(p, l, M) PROVE Types'
  BY <1>5, <1>7 DEF AsksWith
<1>8. ASSUME NEW p \in Procs, NEW l \in Sessions', AnswersWith(p, l) PROVE Types'
  <2> DEFINE e == [paper |-> local[p]["paper"], text |-> local[p]["text"]]
  <2>1. AtStep(p, "model") /\ Has(p, "model") /\ e \in [paper : Papers, text : Papers \cup {Torn}]
    <3>1. AtStep(p, "model") /\ Has(p, "model")
      BY <1>8, WhereIs DEF AnswersWith, Where
    <3>2. QED
      BY <3>1 DEF Knows, Before
  <2>2. /\ Turns(p, l, Left(p) \ {"model"}) /\ UNCHANGED <<disk, mode, memory, handle, commands, cleans, history>>
        /\ analyses' = Append(analyses, e)
    BY <1>8 DEF AnswersWith
  <2> HIDE DEF e
  <2>3. Answers' /\ Analyses \subseteq Analyses'
    <3>1. /\ Append(analyses, e) \in Seq([paper : Papers, text : Papers \cup {Torn}])
          /\ Len(Append(analyses, e)) = Len(analyses) + 1 /\ Len(analyses) \in Nat
      BY <1>1, <2>1, AppendProperties, LenProperties DEF Answers
    <3>2. Analyses' = 1..Len(analyses) + 1 /\ Analyses = 1..Len(analyses)
      BY <1>1, <2>2, <3>1, LenProperties DEF Analyses, Answers
    <3>3. QED
      BY <2>2, <3>1, <3>2 DEF Answers
  <2>4. DiskTyped' /\ Sessions \subseteq Sessions'
    BY <1>d, <2>2, <2>3, MoreAnalyses
  <2>5. Counters'
    BY <1>1, <2>2 DEF Counters, history
  <2>6. mode[p] # "off"
    BY <1>1, <2>1 DEF Processes, AtStep
  <2>7. Typed(p)
    <3>1. /\ memory' \in [Procs -> Sessions'] /\ handle' \in [Procs -> {"closed", "open", "shared", "unlinked"}]
          /\ mode' \in [Procs -> {"off", "console", "command"}] /\ mode'[p] # "off"
          /\ \A q \in Procs \ {p} : mode'[q] = mode[q]
      BY <1>1, <2>2, <2>4, <2>6 DEF Processes
    <3>2. QED
      BY <1>s, <2>2, <2>4, <3>1 DEF Typed
  <2>8. QED
    BY <1>2, <1>p, <2>3, <2>4, <2>5, <2>7
<1>v. ASSUME NEW f \in Written, NEW v \in Values, disk' = [disk EXCEPT ![f] = v], analyses' = analyses,
             f \in {"text", "meta"} => v \in Papers \cup {None, Torn},
             f \in {"analysis", "discovery"} => v \in Analyses \cup {None, Torn},
             f = "strategy" => v \in Strategies \cup {None, Torn}
      PROVE  DiskTyped'
  <2>1. disk' \in [Written -> Values] /\ disk'[f] = v /\ \A g \in Written \ {f} : disk'[g] = disk[g]
    BY <1>1, <1>v DEF DiskTyped
  <2>2. {"text", "meta", "analysis", "discovery", "strategy"} \subseteq Written
    BY DEF Written, Results
  <2>3. disk'["text"] \in Papers \cup {None, Torn} /\ disk'["meta"] \in Papers \cup {None, Torn}
    BY <1>1, <1>v, <2>1, <2>2 DEF DiskTyped
  <2>4. disk'["analysis"] \in Analyses \cup {None, Torn} /\ disk'["discovery"] \in Analyses \cup {None, Torn}
    BY <1>1, <1>v, <2>1, <2>2 DEF DiskTyped
  <2>5. disk'["strategy"] \in Strategies \cup {None, Torn}
    BY <1>1, <1>v, <2>1, <2>2 DEF DiskTyped
  <2>6. QED
    BY <1>a, <1>v, <2>1, <2>3, <2>4, <2>5 DEF DiskTyped
<1>9. ASSUME NEW p \in Procs, NEW f \in Written, NEW l \in Sessions, NEW m \in Sessions, OpensWith(p, f, l, m) PROVE Types'
  <2>1. /\ AtStep(p, f) /\ disk' = [disk EXCEPT ![f] = Torn]
        /\ local' = [local EXCEPT ![p] = l] /\ memory' = [memory EXCEPT ![p] = m]
        /\ handle' \in [Procs -> {"closed", "open", "shared", "unlinked"}] /\ mixed' \in BOOLEAN
        /\ UNCHANGED <<analyses, mode, todo, commands, cleans, raced>>
    BY <1>9 DEF OpensWith
  <2>2. DiskTyped' /\ Answers' /\ Sessions' = Sessions
    BY <1>a, <1>v, <2>1 DEF Values
  <2>3. Counters'
    BY <1>1, <2>1 DEF Counters
  <2>4. Processes'
    BY <1>1, <2>1, <2>2 DEF Processes
  <2>5. QED
    BY <1>2, <2>2, <2>3, <2>4
<1>10. ASSUME NEW p \in Procs, NEW f \in Written, NEW l \in Sessions, NEW v, ClosesWith(p, f, l, v) PROVE Types'
  <2>1. /\ AtStep(p, f) /\ Turns(p, l, Left(p) \ {f}) /\ v \in {Contents(p, f), Torn}
        /\ disk' = disk \/ disk' = [disk EXCEPT ![f] = v]
        /\ handle' = [handle EXCEPT ![p] = "closed"]
        /\ UNCHANGED <<analyses, mode, memory, commands, cleans, history>>
    BY <1>10 DEF ClosesWith
  <2>2. /\ f \in {"text", "meta"} => v \in Papers \cup {None, Torn}
        /\ f \in {"analysis", "discovery"} => v \in Analyses \cup {None, Torn}
        /\ f = "strategy" => v \in Strategies \cup {None, Torn}
    BY <2>1, WhatIsWritten
  <2>3. v \in Values
    <3>1. Analyses \subseteq Nat /\ Strategies \subseteq Plans
      BY <1>1, LenProperties DEF Answers, Analyses, Strategies, Plans
    <3>2. f \in {"text", "meta", "analysis", "discovery", "strategy"}
      BY DEF Written, Results
    <3>3. QED
      BY <2>2, <3>1, <3>2 DEF Values
  <2>4. DiskTyped'
    BY <1>a, <1>d, <1>v, <2>1, <2>2, <2>3
  <2>5. Answers' /\ Counters' /\ Sessions' = Sessions
    BY <1>1, <1>a, <2>1 DEF Counters, history
  <2>6. mode[p] # "off"
    BY <1>1, <2>1 DEF Processes, AtStep
  <2>7. Typed(p)
    <3>1. /\ memory' \in [Procs -> Sessions'] /\ handle' \in [Procs -> {"closed", "open", "shared", "unlinked"}]
          /\ mode' \in [Procs -> {"off", "console", "command"}] /\ mode'[p] # "off"
          /\ \A q \in Procs \ {p} : mode'[q] = mode[q]
      BY <1>1, <2>1, <2>5, <2>6 DEF Processes
    <3>2. QED
      BY <1>s, <2>1, <2>5, <3>1 DEF Typed
  <2>8. QED
    BY <1>2, <1>p, <2>4, <2>5, <2>7
<1>11. CASE Clean
  <2>1. /\ cleans < MaxCleans /\ cleans' = cleans + 1 /\ disk' = [f \in DOMAIN disk |-> None]
        /\ raced' = (raced \/ \E p \in Procs : mode[p] # "off")
        /\ handle' = [p \in Procs |-> IF handle[p] = "closed" THEN "closed" ELSE "unlinked"]
        /\ UNCHANGED <<analyses, mode, memory, todo, local, commands, mixed>>
    BY <1>11 DEF Clean
  <2>2. Counters'
    <3>1. cleans \in Nat /\ MaxCleans \in Nat
      BY <1>1, BoundsAssumption DEF Counters
    <3>2. cleans' \in 0..MaxCleans
      BY <2>1, <3>1
    <3>3. QED
      BY <1>1, <2>1, <3>2 DEF Counters
  <2>3. Answers' /\ Sessions' = Sessions /\ Processes'
    BY <1>1, <1>a, <2>1 DEF Processes
  <2>4. DiskTyped'
    <3>1. /\ disk' = [f \in Written |-> None] /\ None \in Values
          /\ {"text", "meta", "analysis", "discovery", "strategy"} \subseteq Written
      BY <1>1, <2>1 DEF DiskTyped, Values, Written, Results
    <3>2. QED
      BY <3>1 DEF DiskTyped
  <2>5. QED
    BY <1>2, <2>2, <2>3, <2>4
<1>12. CASE UNCHANGED vars
  <2>1. UNCHANGED <<disk, analyses, mode, memory, todo, local, handle, commands, cleans, raced, mixed>>
    BY <1>12 DEF vars, process, history
  <2>2. DiskTyped' /\ Answers' /\ Sessions' = Sessions
    BY <1>a, <1>d, <2>1
  <2>3. Processes' /\ Counters'
    BY <1>1, <2>1, <2>2 DEF Processes, Counters
  <2>4. QED
    BY <1>2, <2>2, <2>3
<1>13. ASSUME NEW p \in Procs, Does(p) PROVE Types'
  BY <1>3, <1>4, <1>6, <1>7, <1>8, <1>9, <1>10, <1>13 DEF Does
<1>14. QED
  BY <1>11, <1>12, <1>13, StepKinds

-----------------------------------------------------------------------------
(* What is left of a command, and what its handler knows.                  *)

\* One whom the step does not concern.
Waits(q) ==
    /\ todo'[q] = todo[q] /\ local'[q] = local[q] /\ (handle'[q] = "closed" <=> handle[q] = "closed")

\* It goes on as it was.
LEMMA WaitingKnows ==
    ASSUME NEW q \in Procs, Shaped(q), Knows(q), Waits(q), Analyses \subseteq Analyses'
    PROVE  Shaped(q)' /\ Knows(q)'
<1>1. /\ \A x : Has(q, x)' <=> Has(q, x)
      /\ \A x : AtStep(q, x)' <=> AtStep(q, x)
      /\ WriteStep(q)' <=> WriteStep(q)
  BY DEF Waits, Has, AtStep, WriteStep
<1>2. (Keeper(q)' <=> Keeper(q)) /\ (Unmade(q)' <=> Unmade(q))
  BY <1>1 DEF Keeper, Unmade
<1>3. Shaped(q)'
  BY <1>1, <1>2 DEF Shaped, Waits
<1>4. Knows(q)'
  BY <1>1, <1>2 DEF Knows, Waits
<1>5. QED
  BY <1>3, <1>4

\* What is to be shown of a process that goes on to R with l.
Ready(R, l) ==
    /\ Fitting(R)
    /\ R \cap Before # {} => l["paper"] \in Papers
    /\ "model" \in R => l["text"] \in Papers \cup {Torn}
    /\ R \cap Results # {} /\ "lookup" \notin R /\ "model" \notin R => l["analysis"] \in Analyses'
    /\ "strategy" \in R /\ "discovery" \notin R => l["discovery"] \in Analyses'

\* It is well, if it has no file open.
LEMMA TurningKnows ==
    ASSUME Types, NEW p \in Procs, NEW l, NEW R, Turns(p, l, R), Ready(R, l), handle'[p] = "closed"
    PROVE  Shaped(p)' /\ Knows(p)'
<1>1. Increasing(todo'[p]) /\ local'[p] = l /\ \A x : Has(p, x)' <=> x \in R
  BY OthersWait
<1>2. (Keeper(p)' <=> R \cap Results # {}) /\ (Unmade(p)' <=> "lookup" \in R \/ "model" \in R)
  BY <1>1 DEF Keeper, Unmade
<1>3. (\E x \in Before : Has(p, x)') <=> R \cap Before # {}
  BY <1>1
<1>4. Shaped(p)'
  BY <1>1, <1>2, <1>3 DEF Shaped, Ready, Fitting
<1>5. Knows(p)'
  BY <1>1, <1>2, <1>3 DEF Knows, Ready
<1>6. QED
  BY <1>4, <1>5

\* What a process in order has left.
LEMMA LeftFits ==
    ASSUME NEW p \in Procs, Shaped(p)
    PROVE  Fitting(Left(p)) /\ \A x : Has(p, x) <=> x \in Left(p)
BY DEF Shaped, Fitting, Left, Has, Keeper

\* Every process stays in order.
LEMMA KnowsStep ==
    ASSUME Types, \A p \in Procs : Shaped(p) /\ Knows(p), [Next]_vars
    PROVE  \A p \in Procs : Shaped(p)' /\ Knows(p)'
<1>1. /\ todo \in [Procs -> Seq(Steps)] /\ local \in [Procs -> Sessions]
      /\ handle \in [Procs -> {"closed", "open", "shared", "unlinked"}]
      /\ analyses \in Seq([paper : Papers, text : Papers \cup {Torn}])
  BY DEF Types, TypeOK
<1>a. analyses' = analyses => Analyses' = Analyses
  BY DEF Analyses
<1>w. Before = {"lookup", "text", "meta", "model"} /\ Results = {"analysis", "discovery", "strategy"}
  BY DEF Before, Results
\* One goes on to other steps and the others wait.
<1>2. ASSUME NEW p \in Procs, NEW l, NEW R, Turns(p, l, R), Ready(R, l), handle'[p] = "closed",
             \A q \in Procs \ {p} : handle'[q] = handle[q], Analyses \subseteq Analyses'
      PROVE  \A q \in Procs : Shaped(q)' /\ Knows(q)'
  <2>1. Shaped(p)' /\ Knows(p)'
    BY <1>2, TurningKnows
  <2>2. ASSUME NEW q \in Procs \ {p} PROVE Shaped(q)' /\ Knows(q)'
    BY <1>2, <2>2, OthersWait, WaitingKnows DEF Waits
  <2>3. QED
    BY <2>1, <2>2
<1>c. \A p \in Procs :
         (todo[p] = << >> \/ \E x \in Before \cup {"materialize"} : AtStep(p, x) /\ x \notin Written) => handle[p] = "closed"
  BY DEF Shaped, WriteStep, AtStep
<1>3. ASSUME NEW p \in Procs, Begins(p) PROVE \A q \in Procs : Shaped(q)' /\ Knows(q)'
  <2>1. PICK s, R : \E m, l \in Sessions : BeginsWith(p, m, l, s, R)
    BY <1>3 DEF Begins
  <2>2. PICK m \in Sessions, l \in Sessions : BeginsWith(p, m, l, s, R)
    BY <2>1
  <2>3. Turns(p, l, R) /\ handle' = handle /\ analyses' = analyses /\ handle[p] = "closed"
    BY <1>c, <2>2 DEF BeginsWith, Turns
  <2>4. Ready(R, l)
    BY <1>a, <1>w, <2>2, <2>3 DEF BeginsWith, Ready, Fitting
  <2>5. QED
    BY <1>2, <1>a, <2>3, <2>4
<1>4. ASSUME NEW p \in Procs, Stops(p) PROVE \A q \in Procs : Shaped(q)' /\ Knows(q)'
  <2>1. Turns(p, Nothing, {}) /\ handle' = [handle EXCEPT ![p] = "closed"] /\ analyses' = analyses
    BY <1>4, HandlerSteps DEF Stops, Turns
  <2>2. Ready({}, Nothing)
    BY DEF Ready, Fitting
  <2>3. QED
    BY <1>1, <1>2, <1>a, <2>1, <2>2
<1>5. ASSUME NEW p \in Procs, NEW l \in Sessions, FindsWith(p, l) PROVE \A q \in Procs : Shaped(q)' /\ Knows(q)'
  <2>1. Where(p) /\ Shaped(p) /\ Knows(p) /\ Has(p, "lookup") /\ Fitting(Left(p)) /\ \A x : Has(p, x) <=> x \in Left(p)
    BY <1>5, WhereIs, LeftFits DEF FindsWith
  <2>2. handle[p] = "closed" /\ handle' = handle /\ analyses' = analyses
    BY <1>5, <1>c, <2>1 DEF FindsWith, Where, Before, Written, Results
  <2>3. /\ Turns(p, l, Left(p) \ {"lookup"}) /\ disk["analysis"] \in Analyses
        /\ Left(p) # {"lookup"} => l["analysis"] = disk["analysis"] /\ l["discovery"] = local[p]["discovery"]
    BY <1>5 DEF FindsWith
  <2>4. (Left(p) \ {"lookup"}) \cap Before = {}
    BY <1>w, <2>1 DEF Fitting
  <2>5. "strategy" \in Left(p) /\ "discovery" \notin Left(p) => local[p]["discovery"] \in Analyses
    BY <2>1 DEF Knows
  <2>6. Ready(Left(p) \ {"lookup"}, l)
    <3>1. Fitting(Left(p) \ {"lookup"})
      BY <1>w, <2>1, <2>4 DEF Fitting
    <3>2. Left(p) \ {"lookup"} # {} => l["analysis"] \in Analyses
      BY <2>1, <2>3
    <3>3. QED
      BY <1>a, <1>w, <2>2, <2>3, <2>4, <2>5, <3>1, <3>2 DEF Ready
  <2>7. QED
    BY <1>2, <1>a, <2>2, <2>3, <2>6
<1>6. ASSUME NEW p \in Procs, NEW l \in Sessions, NEW M, AsksWith(p, l, M) PROVE \A q \in Procs : Shaped(q)' /\ Knows(q)'
  <2>1. Where(p) /\ Shaped(p) /\ Knows(p) /\ Has(p, "lookup") /\ Fitting(Left(p)) /\ \A x : Has(p, x) <=> x \in Left(p)
    BY <1>6, WhereIs, LeftFits DEF AsksWith
  <2>2. handle[p] = "closed" /\ handle' = handle /\ analyses' = analyses
    BY <1>6, <1>c, <2>1 DEF AsksWith, Where, Before, Written, Results
  <2>3. /\ Turns(p, l, (Left(p) \ {"lookup"}) \cup M) /\ (M = {"model"} \/ M = {"text", "meta", "model"})
        /\ l["paper"] = local[p]["paper"] /\ l["discovery"] = local[p]["discovery"] /\ l["text"] \in Papers \cup {Torn}
    BY <1>6 DEF AsksWith
  <2>4. l["paper"] \in Papers
    BY <2>1, <2>3 DEF Knows, Before
  <2>5. "strategy" \in Left(p) /\ "discovery" \notin Left(p) => local[p]["discovery"] \in Analyses
    BY <2>1 DEF Knows
  <2>6. Fitting((Left(p) \ {"lookup"}) \cup M)
    BY <1>w, <2>1, <2>3 DEF Fitting
  <2>7. Ready((Left(p) \ {"lookup"}) \cup M, l)
    BY <1>a, <2>2, <2>3, <2>4, <2>5, <2>6 DEF Ready
  <2>8. QED
    BY <1>2, <1>a, <2>2, <2>3, <2>7
<1>7. ASSUME NEW p \in Procs, NEW l, AnswersWith(p, l) PROVE \A q \in Procs : Shaped(q)' /\ Knows(q)'
  <2>1. /\ AtStep(p, "model") /\ Where(p) /\ Shaped(p) /\ Knows(p) /\ Has(p, "model")
        /\ Fitting(Left(p)) /\ \A x : Has(p, x) <=> x \in Left(p)
    BY <1>7, WhereIs, LeftFits DEF AnswersWith, Where
  <2>2. handle[p] = "closed" /\ handle' = handle
    BY <1>7, <1>c, <2>1 DEF AnswersWith, Before, Written, Results
  <2>3. /\ Turns(p, l, Left(p) \ {"model"})
        /\ analyses' = Append(analyses, [paper |-> local[p]["paper"], text |-> local[p]["text"]])
        /\ Left(p) # {"model"} => l["analysis"] = Len(analyses) + 1 /\ l["discovery"] = local[p]["discovery"]
    BY <1>7 DEF AnswersWith
  <2>4. (Left(p) \ {"model"}) \cap Before = {} /\ "model" \in Left(p)
    BY <1>w, <2>1 DEF Fitting, Where
  <2>5. "strategy" \in Left(p) /\ "discovery" \notin Left(p) => local[p]["discovery"] \in Analyses
    BY <2>1 DEF Knows
  <2>6. Analyses \subseteq Analyses' /\ Len(analyses) + 1 \in Analyses'
    <3> DEFINE e == [paper |-> local[p]["paper"], text |-> local[p]["text"]]
    <3>1. e \in [paper : Papers, text : Papers \cup {Torn}]
      BY <2>1 DEF Knows, Before
    <3> HIDE DEF e
    <3>2. /\ Len(Append(analyses, e)) = Len(analyses) + 1 /\ Len(analyses) \in Nat
          /\ Append(analyses, e) \in Seq([paper : Papers, text : Papers \cup {Torn}])
      BY <1>1, <3>1, AppendProperties, LenProperties
    <3>3. Analyses' = 1..Len(analyses) + 1 /\ Analyses = 1..Len(analyses)
      BY <1>1, <2>3, <3>2, LenProperties DEF Analyses, e
    <3>4. QED
      BY <3>2, <3>3
  <2>7. Ready(Left(p) \ {"model"}, l)
    <3>1. Fitting(Left(p) \ {"model"})
      BY <1>w, <2>1, <2>4 DEF Fitting
    <3>2. Left(p) \ {"model"} # {} => l["analysis"] \in Analyses'
      BY <2>3, <2>4, <2>6
    <3>3. QED
      BY <1>w, <2>3, <2>4, <2>5, <2>6, <3>1, <3>2 DEF Ready
  <2>8. QED
    BY <1>2, <2>2, <2>3, <2>6, <2>7
<1>8. ASSUME NEW p \in Procs, NEW f \in Written, NEW l \in Sessions, NEW m, OpensWith(p, f, l, m)
      PROVE  \A q \in Procs : Shaped(q)' /\ Knows(q)'
  <2>1. /\ AtStep(p, f) /\ local' = [local EXCEPT ![p] = l] /\ handle[p] = "closed"
        /\ l["paper"] = local[p]["paper"] /\ l["text"] = local[p]["text"] /\ l["analysis"] = local[p]["analysis"]
        /\ IF f = "discovery" THEN l["discovery"] \in Analyses ELSE l["discovery"] = local[p]["discovery"]
        /\ handle'[p] \in {"open", "shared"}
        /\ \A q \in Others(p) : handle'[q] = handle[q] \/ (q \in SameFile(p) /\ handle'[q] = "shared")
        /\ UNCHANGED <<analyses, todo>>
    BY <1>8 DEF OpensWith
  <2>2. ASSUME NEW q \in Procs \ {p} PROVE Shaped(q)' /\ Knows(q)'
    <3>1. handle'[q] = "closed" <=> handle[q] = "closed"
      BY <2>1, <2>2 DEF Others, SameFile
    <3>2. QED
      BY <1>1, <1>a, <2>1, <2>2, <3>1, WaitingKnows DEF Waits
  <2>3. /\ \A x : Has(p, x)' <=> Has(p, x)
        /\ \A x : AtStep(p, x)' <=> AtStep(p, x)
        /\ WriteStep(p) /\ WriteStep(p)' /\ local'[p] = l /\ Analyses' = Analyses
    BY <1>1, <1>a, <2>1 DEF Has, AtStep, WriteStep
  <2>4. (Keeper(p)' <=> Keeper(p)) /\ (Unmade(p)' <=> Unmade(p))
    BY <2>3 DEF Keeper, Unmade
  <2>5. Shaped(p)'
    BY <2>1, <2>3, <2>4 DEF Shaped
  <2>6. Knows(p)'
    <3>1. AtStep(p, "discovery") => f = "discovery"
      BY <2>1 DEF AtStep
    <3>2. QED
      BY <2>1, <2>3, <2>4, <3>1 DEF Knows
  <2>7. QED
    BY <2>2, <2>5, <2>6
<1>9. ASSUME NEW p \in Procs, NEW f \in Written, NEW l \in Sessions, NEW v, ClosesWith(p, f, l, v)
      PROVE  \A q \in Procs : Shaped(q)' /\ Knows(q)'
  <2>1. /\ AtStep(p, f) /\ Where(p) /\ Shaped(p) /\ Knows(p) /\ Has(p, f)
        /\ Fitting(Left(p)) /\ \A x : Has(p, x) <=> x \in Left(p)
    BY <1>9, WhereIs, LeftFits DEF ClosesWith, Where
  <2>2. /\ Turns(p, l, Left(p) \ {f}) /\ (Left(p) # {f} => l = local[p]) /\ handle[p] # "closed"
        /\ handle' = [handle EXCEPT ![p] = "closed"] /\ analyses' = analyses
    BY <1>9 DEF ClosesWith
  <2>3. Left(p) \ {f} # {} => l = local[p]
    BY <2>1, <2>2
  <2>4. f \in Results => Keeper(p) /\ ~Unmade(p) /\ local[p]["analysis"] \in Analyses /\ Left(p) \cap Before = {}
    <3>1. f \in Results => Left(p) \cap Before = {}
      BY <2>1 DEF Where
    <3>2. QED
      BY <2>1, <3>1, WhatIsWritten
  <2>5. f \in Results \/ f = "text" \/ f = "meta"
    BY DEF Written
  <2>6. Fitting(Left(p) \ {f})
    BY <1>w, <2>1, <2>4, <2>5 DEF Fitting, Where
  <2>7. "strategy" \in Left(p) \ {f} /\ "discovery" \notin Left(p) \ {f} => local[p]["discovery"] \in Analyses
    <3>1. CASE f = "discovery"
      BY <2>1, <2>2, <3>1 DEF Knows
    <3>2. CASE f # "discovery"
      BY <2>1, <3>2 DEF Knows
    <3>3. QED
      BY <3>1, <3>2
  <2>8. /\ (Left(p) \ {f}) \cap Before # {} => local[p]["paper"] \in Papers
        /\ "model" \in Left(p) => local[p]["text"] \in Papers \cup {Torn}
    BY <2>1 DEF Knows
  <2>9. /\ (Left(p) \ {f}) \cap Results # {} /\ "lookup" \notin Left(p) \ {f} /\ "model" \notin Left(p) \ {f}
            => local[p]["analysis"] \in Analyses
    <3>1. CASE f \in Results
      BY <2>4, <3>1
    <3>2. CASE f \notin Results
      <4>1. "model" \in Left(p) \ {f}
        BY <2>1, <2>5, <3>2 DEF Where, Fitting
      <4>2. QED
        BY <4>1
    <3>3. QED
      BY <3>1, <3>2
  <2>10. Ready(Left(p) \ {f}, l)
    BY <1>a, <2>2, <2>3, <2>6, <2>7, <2>8, <2>9 DEF Ready
  <2>11. QED
    BY <1>1, <1>2, <1>a, <2>2, <2>10
<1>10. ASSUME Clean PROVE \A q \in Procs : Shaped(q)' /\ Knows(q)'
  <2>1. ASSUME NEW q \in Procs PROVE Waits(q) /\ Analyses' = Analyses
    BY <1>1, <1>10, <1>a DEF Clean, Waits
  <2>2. QED
    BY <2>1, WaitingKnows
<1>11. ASSUME UNCHANGED vars PROVE \A q \in Procs : Shaped(q)' /\ Knows(q)'
  <2>1. ASSUME NEW q \in Procs PROVE Waits(q) /\ Analyses' = Analyses
    BY <1>11, <1>a DEF vars, process, Waits
  <2>2. QED
    BY <2>1, WaitingKnows
<1>12. ASSUME NEW p \in Procs, Does(p) PROVE \A q \in Procs : Shaped(q)' /\ Knows(q)'
  BY <1>3, <1>4, <1>5, <1>6, <1>7, <1>8, <1>9, <1>12 DEF Does
<1>13. QED
  BY <1>10, <1>11, <1>12, StepKinds

-----------------------------------------------------------------------------
(* One lineage.                                                            *)

\* A process that the step does not concern, as far as the lineage goes.
Same(q) ==
    /\ memory'[q] = memory[q] /\ local'[q] = local[q] /\ mode'[q] = mode[q] /\ todo'[q] = todo[q]
    /\ handle'[q] = "unlinked" => handle[q] = "unlinked"

\* It keeps what it kept, and saves what it saved.
LEMMA SameViews ==
    ASSUME NEW q, todo'[q] = todo[q]
    PROVE  /\ Keeper(q)' <=> Keeper(q)
           /\ Saving(q)' <=> Saving(q)
           /\ \A x : Has(q, x)' <=> Has(q, x)
BY DEF Keeper, Saving, Has, AtStep

\* What is to be shown of a step of p.
LEMMA LineageKept ==
    ASSUME Lineage, NEW p \in Procs, \A q \in Procs \ {p} : Same(q), NEW a, Common(a),
           From(disk', a), From(memory'[p], a), Keeper(p)' => From(local'[p], a),
           handle'[p] # "unlinked", mode'[p] # "console" => Bare(memory'[p]),
           disk'["analysis"] = None => Start',
           Saving(p)' /\ Has(p, "model")' => disk'["analysis"] = None /\ Bare(local'[p]),
           disk'["analysis"] # None => \A q \in Procs \ {p} : ~(Saving(q) /\ Has(q, "model"))
    PROVE  Lineage'
<1>1. ASSUME NEW q \in Procs
      PROVE  /\ From(memory'[q], a) /\ (Keeper(q)' => From(local'[q], a))
             /\ handle'[q] # "unlinked" /\ (mode'[q] # "console" => Bare(memory'[q]))
             /\ Saving(q)' /\ Has(q, "model")' => disk'["analysis"] = None /\ Bare(local'[q])
  <2>1. CASE q = p
    BY <2>1
  <2>2. CASE q # p
    <3>1. Same(q) /\ (Keeper(q)' <=> Keeper(q)) /\ (Saving(q)' <=> Saving(q)) /\ (Has(q, "model")' <=> Has(q, "model"))
      BY <2>2, SameViews DEF Same
    <3>2. /\ From(memory[q], a) /\ (Keeper(q) => From(local[q], a))
          /\ handle[q] # "unlinked" /\ (mode[q] # "console" => Bare(memory[q]))
          /\ Saving(q) /\ Has(q, "model") => disk["analysis"] = None /\ Bare(local[q])
      BY DEF Common, Lineage
    <3>3. QED
      BY <2>2, <3>1, <3>2 DEF Same
  <2>3. QED
    BY <2>1, <2>2
<1>2. Common(a)'
  BY <1>1 DEF Common, From
<1>3. QED
  BY <1>1, <1>2 DEF Lineage, Bare

\* And of one before there is an analysis.
LEMMA StartKept ==
    ASSUME Start, NEW p \in Procs, \A q \in Procs \ {p} : Same(q),
           Bare(disk'), Bare(memory'[p]), Keeper(p)' /\ ~Saving(p)' => Bare(local'[p]),
           Saving(p)' => Saving(p) \/ \A q \in Procs \ {p} : ~Saving(q)
    PROVE  Start'
<1>1. ASSUME NEW q \in Procs \ {p}
      PROVE  /\ memory'[q] = memory[q] /\ local'[q] = local[q] /\ (Keeper(q)' <=> Keeper(q)) /\ (Saving(q)' <=> Saving(q))
  BY SameViews DEF Same
<1>2. ASSUME NEW q \in Procs PROVE Bare(memory'[q]) /\ (Keeper(q)' /\ ~Saving(q)' => Bare(local'[q]))
  BY <1>1 DEF Start
<1>3. ASSUME NEW q \in Procs, NEW r \in Procs, Saving(q)', Saving(r)' PROVE q = r
  <2>1. (q # p => Saving(q)) /\ (r # p => Saving(r))
    BY <1>1, <1>3
  <2>2. \A x, y \in Procs : Saving(x) /\ Saving(y) => x = y
    BY DEF Start
  <2>3. QED
    BY <1>3, <2>1, <2>2
<1>4. QED
  BY <1>2, <1>3 DEF Start, Bare

\* The marks are no analyses.
LEMMA NoMarks == Types => None \notin Analyses /\ Torn \notin Analyses
<1>1. Types => Analyses \subseteq Nat
  BY LenProperties DEF Types, TypeOK, Analyses
<1>2. QED
  BY <1>1, MarksAssumption

\* The lineage is kept.
LEMMA LineageStep ==
    ASSUME Types, Types', \A p \in Procs : Shaped(p) /\ Knows(p), \A p \in Procs : Shaped(p)', Lineage, [Next]_vars
    PROVE  raced' \/ Lineage'
<1>w. Before = {"lookup", "text", "meta", "model"} /\ Results = {"analysis", "discovery", "strategy"}
  BY DEF Before, Results
<1>0. /\ memory \in [Procs -> Sessions] /\ local \in [Procs -> Sessions] /\ todo \in [Procs -> Seq(Steps)]
      /\ mode \in [Procs -> {"off", "console", "command"}] /\ disk \in [Written -> Values]
      /\ handle \in [Procs -> {"closed", "open", "shared", "unlinked"}] /\ None \notin Analyses /\ Torn \notin Analyses
  BY NoMarks DEF Types, TypeOK
<1>1. PICK a : Common(a)
  BY DEF Lineage
<1>2. /\ From(disk, a)
      /\ \A p \in Procs : From(memory[p], a) /\ (Keeper(p) => From(local[p], a))
  BY <1>1 DEF Common
<1>3. /\ \A p \in Procs : handle[p] # "unlinked" /\ (mode[p] # "console" => Bare(memory[p]))
      /\ disk["analysis"] = None => Start
      /\ \A p \in Procs : Saving(p) /\ Has(p, "model") => disk["analysis"] = None /\ Bare(local[p])
  BY DEF Lineage
<1>4. \A p \in Procs : Where(p) /\ Where(p)'
  BY WhereIs
\* A process turns to the steps R.
<1>t. ASSUME NEW p \in Procs, NEW l, NEW R, Turns(p, l, R)
      PROVE  /\ local'[p] = l /\ (Keeper(p)' <=> R \cap Results # {}) /\ \A x : Has(p, x)' <=> x \in R
             /\ Saving(p)' <=> "analysis" \in R /\ "lookup" \notin R
             /\ \A q \in Procs \ {p} : todo'[q] = todo[q] /\ local'[q] = local[q]
  <2>1. /\ local'[p] = l /\ \A x : Has(p, x)' <=> x \in R
        /\ \A q \in Procs \ {p} : todo'[q] = todo[q] /\ local'[q] = local[q]
    BY <1>t, OthersWait
  <2>2. Keeper(p)' <=> R \cap Results # {}
    BY <2>1 DEF Keeper
  <2>3. Saving(p)' <=> "analysis" \in R /\ "lookup" \notin R
    BY <1>4, <2>1 DEF Where
  <2>4. QED
    BY <2>1, <2>2, <2>3
<1>5. ASSUME NEW p \in Procs, Begins(p) PROVE Lineage'
  <2>1. PICK s, R : \E m, l \in Sessions : BeginsWith(p, m, l, s, R)
    BY <1>5 DEF Begins
  <2>2. PICK m \in Sessions, l \in Sessions : BeginsWith(p, m, l, s, R)
    BY <2>1
  <2>3. /\ Turns(p, l, R) /\ UNCHANGED <<disk, handle>> /\ memory' = [memory EXCEPT ![p] = m]
        /\ mode' \in {mode, [mode EXCEPT ![p] = "console"], [mode EXCEPT ![p] = "command"]}
        /\ mode'[p] = "console" \/ (mode[p] # "console" /\ m = memory[p])
        /\ Sources(m) \subseteq Sources(memory[p]) \cup Sources(disk)
        /\ Sources(m) \cup Sources(l) \subseteq Sources(memory[p]) \cup Sources(disk) \/ (R = {} /\ l = local[p])
        /\ R \cap {"text", "meta", "model"} = {} /\ ("analysis" \in R => "lookup" \in R)
    BY <2>2 DEF BeginsWith, Turns
  <2>4. /\ local'[p] = l /\ (Keeper(p)' <=> R \cap Results # {}) /\ ~Saving(p)'
        /\ \A q \in Procs \ {p} : todo'[q] = todo[q] /\ local'[q] = local[q]
    BY <1>t, <2>3
  <2>5. \A q \in Procs \ {p} : Same(q)
    BY <1>0, <2>3, <2>4 DEF Same
  <2>6. memory'[p] = m
    BY <1>0, <2>3
  <2>7. From(memory'[p], a) /\ (Keeper(p)' => From(local'[p], a))
    BY <1>2, <2>3, <2>4, <2>6 DEF From
  <2>8. mode'[p] # "console" => Bare(memory'[p])
    BY <1>3, <2>3, <2>6
  <2>9. disk["analysis"] = None => Start'
    <3>1. SUFFICES ASSUME disk["analysis"] = None PROVE Start'
      OBVIOUS
    <3>2. Bare(disk') /\ Bare(memory'[p]) /\ (Keeper(p)' => Bare(local'[p]))
      BY <1>3, <2>3, <2>4, <2>6, <3>1 DEF Start, Bare
    <3>3. QED
      BY <1>3, <2>4, <2>5, <3>1, <3>2, StartKept
  <2>10. QED
    BY <1>1, <1>2, <1>3, <2>3, <2>4, <2>5, <2>7, <2>8, <2>9, LineageKept
<1>6. ASSUME NEW p \in Procs, Stops(p) PROVE Lineage'
  <2>1. /\ Turns(p, Nothing, {}) /\ disk' = disk /\ handle' = [handle EXCEPT ![p] = "closed"]
        /\ \/ UNCHANGED <<memory, mode>>
           \/ memory' = [memory EXCEPT ![p] = Nothing] /\ mode' = [mode EXCEPT ![p] = "off"]
    BY <1>6, HandlerSteps DEF Stops, Turns
  <2>2. /\ ~Keeper(p)' /\ ~Saving(p)' /\ \A q \in Procs \ {p} : todo'[q] = todo[q] /\ local'[q] = local[q]
    BY <1>t, <2>1
  <2>3. (\A q \in Procs \ {p} : Same(q)) /\ handle'[p] # "unlinked"
    BY <1>0, <2>1, <2>2 DEF Same
  <2>4. (memory'[p] = memory[p] /\ mode'[p] = mode[p]) \/ Bare(memory'[p])
    BY <1>0, <2>1, NothingHeld DEF Bare
  <2>5. From(memory'[p], a) /\ (mode'[p] # "console" => Bare(memory'[p]))
    BY <1>2, <1>3, <2>4 DEF From, Bare
  <2>6. disk["analysis"] = None => Start'
    <3>1. SUFFICES ASSUME disk["analysis"] = None PROVE Start'
      OBVIOUS
    <3>2. Bare(disk') /\ Bare(memory'[p])
      BY <1>3, <2>1, <2>4, <3>1 DEF Start
    <3>3. QED
      BY <1>3, <2>2, <2>3, <3>1, <3>2, StartKept
  <2>7. QED
    BY <1>1, <1>2, <1>3, <2>1, <2>2, <2>3, <2>5, <2>6, LineageKept
<1>7. ASSUME NEW p \in Procs, NEW l \in Sessions, FindsWith(p, l) PROVE Lineage'
  <2>1. /\ Has(p, "lookup") /\ disk["analysis"] \in Analyses /\ Turns(p, l, Left(p) \ {"lookup"})
        /\ Sources(l) \subseteq Sources(local[p]) \cup {disk["analysis"]}
        /\ UNCHANGED <<disk, mode, memory, handle>>
    BY <1>7 DEF FindsWith
  <2>2. /\ local'[p] = l /\ (Keeper(p)' <=> (Left(p) \ {"lookup"}) \cap Results # {})
        /\ \A x : Has(p, x)' <=> x \in Left(p) \ {"lookup"}
        /\ \A q \in Procs \ {p} : todo'[q] = todo[q] /\ local'[q] = local[q]
    BY <1>t, <2>1
  <2>3. (Keeper(p)' => Keeper(p)) /\ ~Has(p, "model")'
    BY <2>1, <2>2 DEF Keeper, Has, Left, Shaped
  <2>4. disk["analysis"] = a
    BY <1>0, <1>2, <2>1 DEF From, Sources
  <2>5. \A q \in Procs \ {p} : Same(q)
    BY <2>1, <2>2 DEF Same
  <2>6. Keeper(p)' => From(local'[p], a)
    BY <1>2, <2>1, <2>2, <2>3, <2>4 DEF From
  <2>7. disk'["analysis"] # None /\ \A q \in Procs \ {p} : ~(Saving(q) /\ Has(q, "model"))
    BY <1>0, <1>3, <2>1
  <2>8. From(disk', a) /\ From(memory'[p], a) /\ handle'[p] # "unlinked" /\ (mode'[p] # "console" => Bare(memory'[p]))
    BY <1>2, <1>3, <2>1
  <2>9. QED
    BY <1>1, <2>3, <2>5, <2>6, <2>7, <2>8, LineageKept
<1>8. ASSUME NEW p \in Procs, NEW l \in Sessions, NEW M, AsksWith(p, l, M) PROVE raced' \/ Lineage'
  <2>0. SUFFICES ASSUME ~raced' PROVE Lineage'
    OBVIOUS
  <2>1. /\ Has(p, "lookup") /\ disk["analysis"] = None /\ Turns(p, l, (Left(p) \ {"lookup"}) \cup M)
        /\ M \subseteq Before /\ "lookup" \notin M
        /\ Sources(l) = Sources(local[p]) /\ UNCHANGED <<disk, mode, memory, handle>>
        /\ (Has(p, "analysis") => \A q \in Procs \ {p} : ~Saving(q))
    BY <1>8, <1>w, <2>0 DEF AsksWith, Others
  <2> DEFINE R == (Left(p) \ {"lookup"}) \cup M
  <2>2. /\ local'[p] = l /\ (Keeper(p)' <=> R \cap Results # {}) /\ (Saving(p)' <=> "analysis" \in R /\ "lookup" \notin R)
        /\ \A q \in Procs \ {p} : todo'[q] = todo[q] /\ local'[q] = local[q]
    BY <1>t, <2>1
  <2>3. (Keeper(p)' => Keeper(p)) /\ (Saving(p)' <=> Has(p, "analysis"))
    BY <1>w, <2>1, <2>2 DEF Keeper, Has, Left
  <2>4. ~Saving(p) /\ Start
    BY <1>3, <1>4, <2>1 DEF Where
  <2>5. Keeper(p)' => Bare(local'[p])
    BY <2>1, <2>2, <2>3, <2>4 DEF Start, Bare
  <2>6. \A q \in Procs \ {p} : Same(q)
    BY <2>1, <2>2 DEF Same
  <2>7. Start'
    <3>1. Bare(disk') /\ Bare(memory'[p])
      BY <2>1, <2>4 DEF Start
    <3>2. QED
      BY <2>1, <2>3, <2>4, <2>5, <2>6, <3>1, StartKept
  <2>8. /\ From(disk', a) /\ From(memory'[p], a) /\ handle'[p] # "unlinked" /\ (mode'[p] # "console" => Bare(memory'[p]))
        /\ (Keeper(p)' => From(local'[p], a)) /\ (Saving(p)' => Keeper(p)')
    <3>1. Saving(p)' => Keeper(p)'
      BY <1>w, <2>2
    <3>2. QED
      BY <1>2, <1>3, <2>1, <2>5, <3>1 DEF From, Bare
  <2>9. QED
    BY <1>1, <2>1, <2>5, <2>6, <2>7, <2>8, LineageKept
<1>9. ASSUME NEW p \in Procs, NEW l, AnswersWith(p, l) PROVE Lineage'
  <2> DEFINE n == Len(analyses) + 1
             R == Left(p) \ {"model"}
  <2>1. /\ AtStep(p, "model") /\ Turns(p, l, R) /\ Sources(l) \subseteq Sources(local[p]) \cup {n}
        /\ UNCHANGED <<disk, mode, memory, handle>>
    BY <1>9 DEF AnswersWith
  <2>2. /\ local'[p] = l /\ (Keeper(p)' <=> R \cap Results # {}) /\ (\A x : Has(p, x)' <=> x \in R)
        /\ (Saving(p)' <=> "analysis" \in R /\ "lookup" \notin R)
        /\ \A q \in Procs \ {p} : todo'[q] = todo[q] /\ local'[q] = local[q]
    BY <1>t, <2>1
  <2>3. Has(p, "model") /\ ~Has(p, "lookup") /\ (Saving(p) <=> Has(p, "analysis")) /\ (Keeper(p) => Has(p, "analysis"))
    <3>1. Has(p, "model") /\ ~Has(p, "lookup") /\ (Saving(p) <=> Has(p, "analysis"))
      BY <1>4, <2>1 DEF Where, Shaped
    <3>2. QED
      BY <1>w, <3>1 DEF Shaped
  <2>4. /\ Keeper(p)' <=> Keeper(p)
        /\ Saving(p)' <=> Saving(p)
        /\ ~Has(p, "model")'
    BY <1>w, <2>2, <2>3 DEF Keeper, Has, Left
  <2>5. \A q \in Procs \ {p} : Same(q)
    BY <2>1, <2>2 DEF Same
  <2> HIDE DEF n, R
  <2>6. disk["analysis"] = None => Start'
    <3>1. SUFFICES ASSUME disk["analysis"] = None PROVE Start'
      OBVIOUS
    <3>2. Start /\ Bare(disk') /\ Bare(memory'[p])
      BY <1>3, <2>1, <3>1 DEF Start
    <3>3. QED
      BY <2>3, <2>4, <2>5, <3>2, StartKept
  <2>7. handle'[p] # "unlinked" /\ (mode'[p] # "console" => Bare(memory'[p]))
    BY <1>3, <2>1
  <2>8. disk["analysis"] # None => \A q \in Procs \ {p} : ~(Saving(q) /\ Has(q, "model"))
    BY <1>3
  <2>9. CASE Keeper(p)
    <3>1. Saving(p) /\ disk["analysis"] = None /\ Bare(local[p]) /\ Start
      BY <1>3, <2>3, <2>9
    <3>2. ASSUME NEW q \in Procs PROVE From(memory[q], n) /\ (Keeper(q) => From(local[q], n))
      <4>1. q # p => ~Saving(q)
        BY <3>1 DEF Start
      <4>2. Bare(memory[q]) /\ (Keeper(q) => Bare(local[q]))
        BY <3>1, <4>1 DEF Start
      <4>3. QED
        BY <4>2 DEF From, Bare
    <3>3. Common(n) /\ From(disk', n)
      BY <2>1, <3>1, <3>2 DEF Common, Start, Bare, From
    <3>4. From(memory'[p], n) /\ From(local'[p], n)
      BY <2>1, <2>2, <3>1, <3>2 DEF From, Bare
    <3>5. QED
      BY <2>1, <2>4, <2>5, <2>6, <2>7, <2>8, <3>3, <3>4, LineageKept
  <2>10. CASE ~Keeper(p)
    <3>1. From(disk', a) /\ From(memory'[p], a)
      BY <1>2, <2>1
    <3>2. QED
      BY <1>1, <2>1, <2>4, <2>5, <2>6, <2>7, <2>8, <2>10, <3>1, LineageKept
  <2>11. QED
    BY <2>9, <2>10
\* Nobody is past the analysis as long as there is none on the disk.
<1>n. ASSUME NEW p \in Procs, NEW f \in {"discovery", "strategy"}, AtStep(p, f) PROVE disk["analysis"] # None
  <2>1. Keeper(p) /\ ~Saving(p) /\ local[p]["analysis"] \in Analyses
    <3>1. f \in Written /\ f \in Results
      BY <1>n DEF Written, Results
    <3>2. Keeper(p) /\ local[p]["analysis"] \in Analyses
      BY <1>n, <3>1, WhatIsWritten
    <3>3. ~Saving(p)
      BY <1>4, <1>n DEF Where
    <3>4. QED
      BY <3>2, <3>3
  <2>2. ~Bare(local[p])
    <3>1. local[p]["analysis"] \notin {None, Torn}
      BY <1>0, <2>1
    <3>2. local[p]["analysis"] \in Sources(local[p])
      BY <3>1 DEF Sources
    <3>3. QED
      BY <3>2 DEF Bare
  <2>3. QED
    BY <1>3, <2>1, <2>2 DEF Start
<1>m. ASSUME NEW p \in Procs, AtStep(p, "analysis") PROVE \A q \in Procs : ~(Saving(q) /\ Has(q, "model"))
  <2>1. Saving(p) /\ ~Has(p, "model")
    BY <1>4, <1>m, <1>w DEF Where
  <2>2. QED
    BY <1>3, <2>1 DEF Start
<1>10. ASSUME NEW p \in Procs, NEW f \in Written, NEW l \in Sessions, NEW m \in Sessions, OpensWith(p, f, l, m) PROVE Lineage'
  <2>1. /\ AtStep(p, f) /\ disk' = [disk EXCEPT ![f] = Torn]
        /\ local' = [local EXCEPT ![p] = l] /\ memory' = [memory EXCEPT ![p] = m]
        /\ Sources(l) \subseteq Sources(local[p]) /\ Sources(m) \subseteq Sources(memory[p]) \cup Sources(local[p])
        /\ f \notin Results => Sources(l) = Sources(local[p]) /\ m = memory[p]
        /\ mode[p] # "console" => m = memory[p]
        /\ handle'[p] \in {"open", "shared"}
        /\ \A q \in Procs \ {p} : handle'[q] = handle[q] \/ handle'[q] = "shared"
        /\ UNCHANGED <<mode, todo>>
    BY <1>10 DEF OpensWith, Others
  <2>2. \A q \in Procs \ {p} : Same(q)
    BY <1>0, <2>1 DEF Same
  <2>3. /\ memory'[p] = m /\ local'[p] = l /\ (Keeper(p)' <=> Keeper(p)) /\ (Saving(p)' <=> Saving(p))
        /\ (Has(p, "model")' <=> Has(p, "model"))
    BY <1>0, <2>1, SameViews
  <2>4. f \in Results => Keeper(p)
    BY <2>1, WhatIsWritten
  <2>5. From(memory'[p], a) /\ (Keeper(p)' => From(local'[p], a))
    BY <1>2, <2>1, <2>3, <2>4 DEF From
  <2>6. Sources(disk') \subseteq Sources(disk)
    <3>1. disk'[f] = Torn /\ \A g \in Results \ {f} : disk'[g] = disk[g]
      BY <1>0, <2>1 DEF Written
    <3>2. Sources(disk') \subseteq Sources(disk) \cup Adds(f, Torn)
      BY <3>1, Replaced
    <3>3. QED
      BY <3>2 DEF Adds
  <2>7. /\ f = "analysis" => disk'["analysis"] = Torn
        /\ f # "analysis" => disk'["analysis"] = disk["analysis"]
    BY <1>0, <2>1 DEF Written, Results
  <2>8. disk'["analysis"] = None => Start'
    <3>1. SUFFICES ASSUME disk'["analysis"] = None PROVE Start'
      OBVIOUS
    <3>2. disk["analysis"] = None /\ f \notin Results
      BY <1>n, <1>w, <2>1, <2>7, <3>1, MarksAssumption
    <3>3. Start /\ Bare(disk') /\ Bare(memory'[p]) /\ (Keeper(p)' /\ ~Saving(p)' => Bare(local'[p]))
      BY <1>3, <2>1, <2>3, <2>6, <3>2 DEF Start, Bare
    <3>4. QED
      BY <2>2, <2>3, <3>3, StartKept
  <2>9. ASSUME NEW q \in Procs, Saving(q), Has(q, "model") PROVE f \notin Results /\ disk'["analysis"] = None /\ Bare(local[q])
    BY <1>3, <1>m, <1>n, <1>w, <2>1, <2>7, <2>9
  <2>10. /\ Saving(p)' /\ Has(p, "model")' => disk'["analysis"] = None /\ Bare(local'[p])
         /\ disk'["analysis"] # None => \A q \in Procs \ {p} : ~(Saving(q) /\ Has(q, "model"))
    BY <2>1, <2>3, <2>9 DEF Bare
  <2>11. From(disk', a) /\ handle'[p] # "unlinked" /\ (mode'[p] # "console" => Bare(memory'[p]))
    BY <1>2, <1>3, <2>1, <2>3, <2>6 DEF From
  <2>12. QED
    BY <1>1, <2>2, <2>5, <2>8, <2>10, <2>11, LineageKept
<1>11. ASSUME NEW p \in Procs, NEW f \in Written, NEW l \in Sessions, NEW v, ClosesWith(p, f, l, v) PROVE Lineage'
  <2> DEFINE R == Left(p) \ {f}
  <2>1. /\ AtStep(p, f) /\ Turns(p, l, R) /\ (Left(p) # {f} => l = local[p])
        /\ v = Contents(p, f) \/ v = Torn
        /\ disk' = [disk EXCEPT ![f] = v] /\ handle' = [handle EXCEPT ![p] = "closed"]
        /\ UNCHANGED <<mode, memory>>
    BY <1>3, <1>11 DEF ClosesWith
  <2>2. /\ local'[p] = l /\ (Keeper(p)' <=> R \cap Results # {}) /\ (\A x : Has(p, x)' <=> x \in R)
        /\ (Saving(p)' <=> "analysis" \in R /\ "lookup" \notin R)
        /\ \A q \in Procs \ {p} : todo'[q] = todo[q] /\ local'[q] = local[q]
    BY <1>t, <2>1
  <2>3. Has(p, f) /\ f # "lookup" /\ f # "model"
    BY <1>4, <2>1 DEF Where, Written, Results
  <2>4. /\ Keeper(p)' => Keeper(p) /\ l = local[p]
        /\ Saving(p)' => Saving(p) /\ Keeper(p)'
        /\ Saving(p) /\ f # "analysis" => Saving(p)'
        /\ Has(p, "model")' <=> Has(p, "model")
    <3>1. Saving(p) <=> Has(p, "analysis") /\ ~Has(p, "lookup")
      BY <1>4 DEF Where
    <3>2. QED
      BY <1>w, <2>1, <2>2, <2>3, <3>1 DEF Keeper, Has, Left
  <2> HIDE DEF R
  <2>5. \A q \in Procs \ {p} : Same(q)
    BY <1>0, <2>1, <2>2 DEF Same
  <2>6. f \in Results => Keeper(p)
    BY <2>1, WhatIsWritten
  <2>7. Sources(disk') \subseteq Sources(disk) \cup Adds(f, v) /\ Adds(f, v) \subseteq Sources(local[p])
        /\ (f \notin Results => Sources(disk') = Sources(disk) /\ Adds(f, v) = {})
    <3>1. disk'[f] = v /\ \A g \in Results \ {f} : disk'[g] = disk[g]
      BY <1>0, <2>1 DEF Written
    <3>2. Sources(disk') \subseteq Sources(disk) \cup Adds(f, v) /\ (f \notin Results => Sources(disk') = Sources(disk))
      BY <3>1, Replaced
    <3>3. Adds(f, Contents(p, f)) \subseteq Sources(local[p]) /\ Adds(f, Torn) = {}
      BY <2>1, WhatIsWritten DEF Adds
    <3>4. f \notin Results => Adds(f, v) = {}
      BY <1>w DEF Adds
    <3>5. QED
      BY <2>1, <3>2, <3>3, <3>4
  <2>8. From(disk', a) /\ From(memory'[p], a) /\ (Keeper(p)' => From(local'[p], a))
    <3>1. f \in Results => From(disk', a)
      BY <1>2, <2>6, <2>7 DEF From
    <3>2. QED
      BY <1>2, <2>1, <2>2, <2>4, <2>7, <3>1 DEF From
  <2>9. /\ f = "analysis" => disk'["analysis"] # None
        /\ f # "analysis" => disk'["analysis"] = disk["analysis"]
    <3>1. f = "analysis" => v # None
      BY <1>0, <2>1, WhatIsWritten, MarksAssumption
    <3>2. QED
      BY <1>0, <2>1, <3>1 DEF Written, Results
  <2>10. disk'["analysis"] = None => Start'
    <3>1. SUFFICES ASSUME disk'["analysis"] = None PROVE Start'
      OBVIOUS
    <3>2. disk["analysis"] = None /\ f \notin Results
      BY <1>n, <1>w, <2>1, <2>9, <3>1
    <3>3. Start /\ Bare(disk') /\ Bare(memory'[p]) /\ (Keeper(p)' /\ ~Saving(p)' => Bare(local'[p]))
      BY <1>3, <1>w, <2>1, <2>2, <2>4, <2>7, <3>2 DEF Start, Bare
    <3>4. QED
      BY <2>4, <2>5, <3>3, StartKept
  <2>11. ASSUME NEW q \in Procs, Saving(q), Has(q, "model") PROVE f \notin Results /\ disk'["analysis"] = None /\ Bare(local[q])
    BY <1>3, <1>m, <1>n, <1>w, <2>1, <2>9, <2>11
  <2>12. /\ Saving(p)' /\ Has(p, "model")' => disk'["analysis"] = None /\ Bare(local'[p])
         /\ disk'["analysis"] # None => \A q \in Procs \ {p} : ~(Saving(q) /\ Has(q, "model"))
    BY <2>2, <2>4, <2>11
  <2>13. handle'[p] # "unlinked" /\ (mode'[p] # "console" => Bare(memory'[p]))
    BY <1>0, <1>3, <2>1
  <2>14. QED
    BY <1>1, <2>5, <2>8, <2>10, <2>12, <2>13, LineageKept
<1>12. CASE Clean
  <2>0. SUFFICES ASSUME ~raced' PROVE Lineage'
    OBVIOUS
  <2>1. /\ \A p \in Procs : mode[p] = "off"
        /\ disk' = [f \in Written |-> None]
        /\ handle' = [p \in Procs |-> IF handle[p] = "closed" THEN "closed" ELSE "unlinked"]
        /\ UNCHANGED <<mode, memory, todo, local>>
    BY <1>0, <1>12, <2>0 DEF Clean
  <2>2. \A p \in Procs : todo[p] = << >> /\ handle[p] = "closed" /\ Bare(memory[p])
    BY <1>3, <2>1 DEF Types, TypeOK, Shaped, WriteStep
  <2>3. \A p \in Procs : handle'[p] # "unlinked" /\ Bare(memory'[p]) /\ ~Keeper(p)' /\ ~Saving(p)'
    <3>1. \A p, x : p \in Procs => ~Has(p, x)'
      BY <2>1, <2>2, SingleStep DEF Has
    <3>2. QED
      BY <2>1, <2>2, <3>1 DEF Keeper, Saving, Has
  <2>4. Bare(disk')
    <3>1. disk'["analysis"] = None /\ disk'["discovery"] = None /\ disk'["strategy"] = None
      BY <2>1 DEF Written, Results
    <3>2. QED
      BY <3>1 DEF Bare, Sources
  <2>5. Start' /\ Common(a)'
    BY <2>3, <2>4 DEF Start, Common, From, Bare
  <2>6. QED
    BY <2>3, <2>5 DEF Lineage, Bare
<1>13. CASE UNCHANGED vars
  <2>1. UNCHANGED <<disk, mode, memory, todo, local, handle>>
    BY <1>13 DEF vars, process
  <2>2. ASSUME NEW p \in Procs
        PROVE  (Keeper(p)' <=> Keeper(p)) /\ (Saving(p)' <=> Saving(p)) /\ (Has(p, "model")' <=> Has(p, "model"))
    BY <2>1, SameViews
  <2>3. Common(a)' /\ (disk["analysis"] = None => Start')
    BY <1>1, <1>3, <2>1, <2>2 DEF Common, Start, From, Bare
  <2>4. QED
    BY <1>3, <2>1, <2>2, <2>3 DEF Lineage, Bare
<1>14. ASSUME NEW p \in Procs, Does(p) PROVE raced' \/ Lineage'
  BY <1>5, <1>6, <1>7, <1>8, <1>9, <1>10, <1>11, <1>14 DEF Does
<1>15. QED
  BY <1>12, <1>13, <1>14, StepKinds

-----------------------------------------------------------------------------
(* The texts.                                                              *)

\* Who parses, and how far one is with it.
LEMMA SameParsing ==
    ASSUME NEW q, todo'[q] = todo[q], handle'[q] = "closed" <=> handle[q] = "closed"
    PROVE  /\ Parsing(q)' <=> Parsing(q)
           /\ \A x : AtStep(q, x)' <=> AtStep(q, x)
           /\ \A x : Has(q, x)' <=> Has(q, x)
BY DEF Parsing, AtStep, Has

\* What is to be shown of a step that leaves the texts alone.
LEMMA TextsKept ==
    ASSUME Texts, NEW p \in Procs, disk'["text"] = disk["text"], disk'["meta"] = disk["meta"],
           \A q \in Procs \ {p} : todo'[q] = todo[q] /\ local'[q] = local[q],
           \A q \in Procs \ {p} : handle'[q] = handle[q] \/ (~Parsing(q) /\ handle[q] # "closed" /\ handle'[q] # "closed"),
           ~Parsing(p), ~Parsing(p)', Has(p, "model")' => local'[p]["text"] = local'[p]["paper"],
           \A a \in Analyses' : analyses'[a].text = analyses'[a].paper
    PROVE  Texts'
<1>1. ASSUME NEW q \in Procs \ {p}
      PROVE  /\ local'[q] = local[q] /\ (Parsing(q)' <=> Parsing(q)) /\ (Parsing(q) => handle'[q] = handle[q])
             /\ (\A x : AtStep(q, x)' <=> AtStep(q, x)) /\ (\A x : Has(q, x)' <=> Has(q, x))
  BY <1>1, SameParsing
<1>2. ASSUME NEW q \in Procs, NEW r \in Procs, Parsing(q)', Parsing(r)' PROVE q = r
  BY <1>1, <1>2 DEF Texts
<1>3. (\A q \in Procs : ~Parsing(q)') => Told'
  <2>1. (\A q \in Procs : ~Parsing(q)') => \A q \in Procs : ~Parsing(q)
    BY <1>1
  <2>2. QED
    BY <2>1 DEF Texts, Told
<1>4. ASSUME NEW q \in Procs
            PROVE  (Parsing(q)' => Parses(q)') /\ (Has(q, "model")' => local'[q]["text"] = local'[q]["paper"])
  <2>1. CASE q = p
    BY <2>1
  <2>2. CASE q # p
    <3>1. (Parsing(q) => Parses(q)) /\ (Has(q, "model") => local[q]["text"] = local[q]["paper"])
      BY DEF Texts
    <3>2. Parsing(q)' => Parses(q)'
      BY <1>1, <2>2, <3>1 DEF Parses
    <3>3. QED
      BY <1>1, <2>2, <3>1, <3>2
  <2>3. QED
    BY <2>1, <2>2
<1>5. QED
  BY <1>2, <1>3, <1>4 DEF Texts

\* The texts stay with their papers.
LEMMA TextsStep ==
    ASSUME Types, Types', \A p \in Procs : Shaped(p) /\ Knows(p), \A p \in Procs : Shaped(p)', Texts, [Next]_vars
    PROVE  mixed' \/ Texts'
<1>w. Before = {"lookup", "text", "meta", "model"} /\ Results = {"analysis", "discovery", "strategy"}
  BY DEF Before, Results
<1>0. /\ local \in [Procs -> Sessions] /\ todo \in [Procs -> Seq(Steps)] /\ disk \in [Written -> Values]
      /\ handle \in [Procs -> {"closed", "open", "shared", "unlinked"}]
      /\ analyses \in Seq([paper : Papers, text : Papers \cup {Torn}])
      /\ "text" \in Written /\ "meta" \in Written
  BY DEF Types, TypeOK, Written
<1>1. /\ \A p, q \in Procs : Parsing(p) /\ Parsing(q) => p = q
      /\ (\A p \in Procs : ~Parsing(p)) => Told
      /\ \A p \in Procs : (Parsing(p) => Parses(p)) /\ (Has(p, "model") => local[p]["text"] = local[p]["paper"])
      /\ \A a \in Analyses : analyses[a].text = analyses[a].paper
  BY DEF Texts
<1>2. \A p \in Procs : Where(p) /\ Where(p)' /\ Fitting(Left(p)) /\ \A x : Has(p, x) <=> x \in Left(p)
  BY WhereIs, LeftFits
<1>a. analyses' = analyses => \A a \in Analyses' : analyses'[a].text = analyses'[a].paper
  BY <1>1 DEF Analyses
\* A process turns to steps with no text among them, or before it opens one.
<1>t. ASSUME NEW p \in Procs, NEW l, NEW R, Turns(p, l, R)
      PROVE  /\ local'[p] = l /\ \A x : Has(p, x)' <=> x \in R
             /\ Parsing(p)' <=> ("meta" \in R /\ "text" \notin R) \/ ("text" \in R /\ handle'[p] # "closed")
             /\ \A q \in Procs \ {p} : todo'[q] = todo[q] /\ local'[q] = local[q]
  <2>1. /\ local'[p] = l /\ (\A x : Has(p, x)' <=> x \in R)
        /\ \A q \in Procs \ {p} : todo'[q] = todo[q] /\ local'[q] = local[q]
    BY <1>t, OthersWait
  <2>2. Parsing(p)' <=> ("meta" \in R /\ "text" \notin R) \/ ("text" \in R /\ handle'[p] # "closed")
    BY <1>2, <2>1 DEF Where
  <2>3. QED
    BY <2>1, <2>2
<1>3. ASSUME NEW p \in Procs, Begins(p) PROVE Texts'
  <2>1. PICK s, R : \E m, l \in Sessions : BeginsWith(p, m, l, s, R)
    BY <1>3 DEF Begins
  <2>2. PICK m \in Sessions, l \in Sessions : BeginsWith(p, m, l, s, R)
    BY <2>1
  <2>3. /\ todo[p] = << >> /\ Turns(p, l, R) /\ R \cap {"text", "meta", "model"} = {}
        /\ UNCHANGED <<disk, analyses, handle>>
    BY <2>2 DEF BeginsWith, Turns
  <2>4. ~Parsing(p) /\ ~Parsing(p)' /\ ~Has(p, "model")'
        /\ \A q \in Procs \ {p} : todo'[q] = todo[q] /\ local'[q] = local[q]
    BY <1>t, <2>3 DEF Parsing, AtStep
  <2>5. QED
    BY <1>a, <2>3, <2>4, TextsKept
<1>4. ASSUME NEW p \in Procs, Stops(p) PROVE mixed' \/ Texts'
  <2>1. /\ Turns(p, Nothing, {}) /\ UNCHANGED <<disk, analyses>> /\ handle' = [handle EXCEPT ![p] = "closed"]
        /\ mixed' \/ ~Parsing(p)
    BY <1>4, HandlerSteps DEF Stops, Turns
  <2>2. ~Parsing(p)' /\ ~Has(p, "model")' /\ (\A q \in Procs \ {p} : todo'[q] = todo[q] /\ local'[q] = local[q])
        /\ \A q \in Procs \ {p} : handle'[q] = handle[q]
    BY <1>0, <1>t, <2>1
  <2>3. QED
    BY <1>a, <2>1, <2>2, TextsKept
<1>5. ASSUME NEW p \in Procs, NEW l \in Sessions, FindsWith(p, l) PROVE Texts'
  <2>1. Has(p, "lookup") /\ Turns(p, l, Left(p) \ {"lookup"}) /\ UNCHANGED <<disk, analyses, handle>>
    BY <1>5 DEF FindsWith
  <2>2. Left(p) \cap {"text", "meta", "model"} = {}
    BY <1>2, <2>1 DEF Fitting
  <2>3. ~Parsing(p)
    BY <1>2, <2>2 DEF Where
  <2>4. ~Parsing(p)' /\ ~Has(p, "model")' /\ \A q \in Procs \ {p} : todo'[q] = todo[q] /\ local'[q] = local[q]
    BY <1>t, <2>1, <2>2
  <2>5. QED
    BY <1>a, <2>1, <2>3, <2>4, TextsKept
<1>6. ASSUME NEW p \in Procs, NEW l \in Sessions, NEW M, AsksWith(p, l, M) PROVE mixed' \/ Texts'
  <2>0. SUFFICES ASSUME ~mixed' PROVE Texts'
    OBVIOUS
  <2> DEFINE R == (Left(p) \ {"lookup"}) \cup M
  <2>1. /\ Has(p, "lookup") /\ Turns(p, l, R) /\ UNCHANGED <<disk, analyses, handle>>
        /\ M = {"model"} \/ M = {"text", "meta", "model"}
        /\ l["paper"] = local[p]["paper"]
        /\ l["text"] = l["paper"] \/ (disk["meta"] = l["paper"] /\ disk["text"] = l["text"] /\ l["text"] # None)
        /\ \A q \in Procs \ {p} : ~Parsing(q)
    BY <1>6, <2>0 DEF AsksWith, Others
  <2>2. Left(p) \cap {"text", "meta", "model"} = {}
    BY <1>2, <2>1 DEF Fitting
  <2>3. ~Parsing(p) /\ handle[p] = "closed"
    <3>1. ~Parsing(p)
      BY <1>2, <2>2 DEF Where
    <3>2. AtStep(p, "lookup") /\ "lookup" \notin Written
      BY <1>2, <2>1 DEF Where, Written, Results
    <3>3. QED
      BY <3>1, <3>2 DEF Shaped, WriteStep, AtStep
  <2>4. /\ local'[p] = l /\ \A q \in Procs \ {p} : todo'[q] = todo[q] /\ local'[q] = local[q]
        /\ Parsing(p)' <=> ("meta" \in R /\ "text" \notin R) \/ ("text" \in R /\ handle'[p] # "closed")
    BY <1>t, <2>1
  <2>5. ~Parsing(p)'
    BY <2>1, <2>2, <2>3, <2>4
  <2>6. l["text"] = l["paper"]
    <3>1. Told
      BY <1>1, <2>1, <2>3
    <3>2. l["paper"] \in Papers
      BY <2>1 DEF Knows, Before
    <3>3. QED
      BY <2>1, <3>1, <3>2 DEF Told
  <2>7. QED
    BY <1>a, <2>1, <2>3, <2>4, <2>5, <2>6, TextsKept
<1>7. ASSUME NEW p \in Procs, NEW l, AnswersWith(p, l) PROVE Texts'
  <2> DEFINE e == [paper |-> local[p]["paper"], text |-> local[p]["text"]]
  <2>1. AtStep(p, "model") /\ Turns(p, l, Left(p) \ {"model"}) /\ UNCHANGED <<disk, handle>> /\ analyses' = Append(analyses, e)
    BY <1>7 DEF AnswersWith
  <2>2. Has(p, "model") /\ ~Has(p, "meta") /\ ~Has(p, "text")
    BY <1>2, <2>1 DEF Where, Fitting
  <2>3. ~Parsing(p)
    BY <1>2, <2>2 DEF Where
  <2>4. ~Parsing(p)' /\ ~Has(p, "model")' /\ \A q \in Procs \ {p} : todo'[q] = todo[q] /\ local'[q] = local[q]
    BY <1>2, <1>t, <2>1, <2>2
  <2>5. e \in [paper : Papers, text : Papers \cup {Torn}] /\ e.text = e.paper
    BY <1>1, <2>2 DEF Knows, Before
  <2> HIDE DEF e
  <2>6. \A a \in Analyses' : analyses'[a].text = analyses'[a].paper
    <3>1. /\ Append(analyses, e) \in Seq([paper : Papers, text : Papers \cup {Torn}])
          /\ Len(Append(analyses, e)) = Len(analyses) + 1 /\ Len(analyses) \in Nat
          /\ \A i \in 1..Len(analyses) : Append(analyses, e)[i] = analyses[i]
          /\ Append(analyses, e)[Len(analyses) + 1] = e
      BY <1>0, <2>5, AppendProperties, LenProperties
    <3>2. Analyses' = 1..Len(analyses) + 1 /\ Analyses = 1..Len(analyses)
      BY <1>0, <2>1, <3>1, LenProperties DEF Analyses
    <3>3. \A a \in Analyses' : a \in Analyses \/ a = Len(analyses) + 1
      BY <3>1, <3>2
    <3>4. QED
      BY <1>1, <2>1, <2>5, <3>1, <3>2, <3>3
  <2>7. QED
    BY <2>1, <2>3, <2>4, <2>6, TextsKept
<1>8. ASSUME NEW p \in Procs, NEW f \in Written, NEW l \in Sessions, NEW m, OpensWith(p, f, l, m) PROVE mixed' \/ Texts'
  <2>0. SUFFICES ASSUME ~mixed' PROVE Texts'
    OBVIOUS
  <2>1. /\ AtStep(p, f) /\ disk' = [disk EXCEPT ![f] = Torn] /\ local' = [local EXCEPT ![p] = l] /\ handle[p] = "closed"
        /\ l["paper"] = local[p]["paper"] /\ l["text"] = local[p]["text"]
        /\ handle'[p] \in {"open", "shared"} /\ (SameFile(p) = {} => handle'[p] = "open")
        /\ \A q \in Procs \ {p} : handle'[q] = handle[q] \/ (q \in SameFile(p) /\ handle'[q] = "shared")
        /\ f = "text" => \A q \in Procs \ {p} : ~Parsing(q)
        /\ UNCHANGED <<analyses, todo>>
    BY <1>8, <2>0 DEF OpensWith, Others
  <2>2. /\ local'[p] = l /\ (\A x : Has(p, x)' <=> Has(p, x)) /\ (\A x : AtStep(p, x)' <=> AtStep(p, x))
        /\ \A q \in Procs \ {p} : todo'[q] = todo[q] /\ local'[q] = local[q]
    BY <1>0, <2>1 DEF Has, AtStep
  <2>3. \A q \in SameFile(p) : q \in Procs \ {p} /\ AtStep(q, f) /\ handle[q] # "closed"
    BY <2>1 DEF SameFile, Others, WriteStep, AtStep
  <2>4. Has(p, "model")' => local'[p]["text"] = local'[p]["paper"]
    BY <1>1, <2>1, <2>2
  <2>5. CASE f \in Results
    <3>1. disk'["text"] = disk["text"] /\ disk'["meta"] = disk["meta"]
      BY <1>0, <1>w, <2>1, <2>5
    <3>2. ~Parsing(p) /\ ~Parsing(p)' /\ \A q \in SameFile(p) : ~Parsing(q)
      BY <1>w, <2>1, <2>2, <2>3, <2>5 DEF Parsing, AtStep
    <3>3. \A q \in Procs \ {p} : handle'[q] = handle[q] \/ (~Parsing(q) /\ handle[q] # "closed" /\ handle'[q] # "closed")
      BY <2>1, <2>3, <3>2
    <3>4. QED
      BY <1>a, <2>1, <2>2, <2>4, <3>1, <3>2, <3>3, TextsKept
  <2>6. CASE f \notin Results
    <3>0. f \in {"text", "meta"}
      BY <2>6 DEF Written
    <3>1. \A q \in Procs \ {p} : ~Parsing(q)
      <4>1. f = "meta" => Parsing(p)
        BY <2>1 DEF Parsing
      <4>2. QED
        BY <1>1, <2>1, <3>0, <4>1
    <3>2. SameFile(p) = {}
      BY <2>3, <3>0, <3>1 DEF Parsing
    <3>3. handle'[p] = "open" /\ \A q \in Procs \ {p} : ~Parsing(q)'
      BY <2>1, <2>2, <3>1, <3>2, SameParsing
    <3>4. Parsing(p)'
      BY <2>1, <2>2, <3>0, <3>3 DEF Parsing
    <3>5. Parses(p)'
      <4>1. CASE f = "text"
        <5>1. ~AtStep(p, "meta")'
          BY <2>1, <2>2, <4>1 DEF AtStep
        <5>2. QED
          BY <3>3, <5>1 DEF Parses
      <4>2. CASE f = "meta"
        <5>1. ~AtStep(p, "text")' /\ disk'["text"] = disk["text"]
          BY <1>0, <2>1, <2>2, <4>2 DEF AtStep
        <5>2. disk["text"] \in {local[p]["paper"], None}
          BY <1>1, <2>1, <4>2 DEF Parses, Parsing
        <5>3. QED
          BY <2>1, <2>2, <3>3, <5>1, <5>2 DEF Parses
      <4>3. QED
        BY <3>0, <4>1, <4>2
    <3>6. ASSUME NEW q \in Procs
            PROVE  (Parsing(q)' => Parses(q)') /\ (Has(q, "model")' => local'[q]["text"] = local'[q]["paper"])
      <4>1. CASE q = p
        BY <2>4, <3>5, <4>1
      <4>2. CASE q # p
        BY <1>1, <2>2, <3>3, <4>2 DEF Has
      <4>3. QED
        BY <4>1, <4>2
    <3>7. \A q, r \in Procs : Parsing(q)' /\ Parsing(r)' => q = r
      BY <3>3
    <3>8. QED
      BY <1>a, <2>1, <3>4, <3>6, <3>7 DEF Texts
  <2>7. QED
    BY <2>5, <2>6
<1>9. ASSUME NEW p \in Procs, NEW f \in Written, NEW l \in Sessions, NEW v, ClosesWith(p, f, l, v) PROVE Texts'
  <2> DEFINE R == Left(p) \ {f}
  <2>1. /\ AtStep(p, f) /\ handle[p] # "closed" /\ Turns(p, l, R) /\ (Left(p) # {f} => l = local[p])
        /\ v = Contents(p, f) \/ (v = Torn /\ handle[p] = "shared")
        /\ disk' = IF handle[p] = "unlinked" THEN disk ELSE [disk EXCEPT ![f] = v]
        /\ handle' = [handle EXCEPT ![p] = "closed"] /\ analyses' = analyses
    BY <1>9 DEF ClosesWith
  <2>2. /\ local'[p] = l /\ (\A x : Has(p, x)' <=> x \in R) /\ handle'[p] = "closed"
        /\ Parsing(p)' <=> "meta" \in R /\ "text" \notin R
        /\ \A q \in Procs \ {p} : todo'[q] = todo[q] /\ local'[q] = local[q] /\ handle'[q] = handle[q]
    <3>1. handle'[p] = "closed" /\ \A q \in Procs \ {p} : handle'[q] = handle[q]
      BY <1>0, <2>1
    <3>2. QED
      BY <1>t, <2>1, <3>1
  <2>3. Has(p, f) /\ f \in Left(p) /\ (R # {} => l = local[p])
    BY <1>2, <2>1 DEF Where
  <2>4. Has(p, "model")' => local'[p]["text"] = local'[p]["paper"]
    <3>1. Has(p, "model")' => Has(p, "model") /\ l = local[p]
      BY <1>2, <2>2, <2>3
    <3>2. QED
      BY <1>1, <2>2, <3>1
  <2>5. CASE f \in Results
    <3>1. disk'["text"] = disk["text"] /\ disk'["meta"] = disk["meta"]
      BY <1>0, <1>w, <2>1, <2>5
    <3>2. Left(p) \cap Before = {}
      BY <1>2, <2>1, <2>5 DEF Where
    <3>3. ~Parsing(p) /\ ~Parsing(p)'
      BY <1>2, <1>w, <2>2, <3>2 DEF Where
    <3>4. QED
      BY <1>a, <2>1, <2>2, <2>4, <3>1, <3>3, TextsKept
  <2>6. CASE f \notin Results
    <3>0. f \in {"text", "meta"}
      BY <2>6 DEF Written
    <3>1. Parsing(p) /\ Parses(p) /\ v = Contents(p, f) /\ "model" \in R /\ l = local[p]
      <4>1. Parsing(p)
        BY <2>1, <3>0 DEF Parsing
      <4>2. "model" \in R
        BY <1>2, <2>3, <3>0 DEF Fitting
      <4>3. Parses(p)
        BY <1>1, <4>1
      <4>4. QED
        BY <2>1, <2>3, <4>1, <4>2, <4>3 DEF Parses
    <3>2. \A q \in Procs \ {p} : ~Parsing(q) /\ ~Parsing(q)'
      BY <1>1, <2>2, <3>1, SameParsing
    <3>3. CASE f = "text"
      <4>1. Parsing(p)' /\ AtStep(p, "meta")' /\ ~AtStep(p, "text")'
        <5>1. "meta" \in R /\ "text" \notin R
          BY <1>2, <2>3, <3>3 DEF Fitting
        <5>2. QED
          BY <1>2, <2>2, <5>1 DEF Where
      <4>2. disk'["text"] \in {local[p]["paper"], None}
        <5>1. v = local[p]["paper"]
          BY <1>1, <1>2, <2>1, <3>1, <3>3, WhatIsWritten
        <5>2. handle[p] = "unlinked" => disk["text"] = None
          BY <2>1, <3>1, <3>3 DEF Parses
        <5>3. QED
          BY <1>0, <2>1, <3>3, <5>1, <5>2
      <4>3. Parses(p)'
        BY <2>2, <3>1, <4>1, <4>2 DEF Parses
      <4>4. ASSUME NEW q \in Procs
            PROVE  (Parsing(q)' => Parses(q)') /\ (Has(q, "model")' => local'[q]["text"] = local'[q]["paper"])
        <5>1. CASE q = p
          BY <2>4, <4>3, <5>1
        <5>2. CASE q # p
          BY <1>1, <2>2, <3>2, <5>2 DEF Has
        <5>3. QED
          BY <5>1, <5>2
      <4>5. \A q, r \in Procs : Parsing(q)' /\ Parsing(r)' => q = r
        BY <3>2
      <4>6. QED
        BY <1>a, <2>1, <4>1, <4>4, <4>5 DEF Texts
    <3>4. CASE f = "meta"
      <4>1. ~Parsing(p)'
        BY <2>2, <3>4
      <4>2. Told'
        <5>1. disk["text"] \in {local[p]["paper"], None} /\ (handle[p] = "unlinked" => disk["meta"] = None)
          BY <2>1, <3>1, <3>4 DEF Parses
        <5>2. v = local[p]["paper"]
          BY <2>1, <3>1, <3>4, WhatIsWritten
        <5>3. disk'["text"] = disk["text"] /\ disk'["meta"] = (IF handle[p] = "unlinked" THEN disk["meta"] ELSE v)
          BY <1>0, <2>1, <3>4
        <5>4. None \notin Papers
          BY MarksAssumption
        <5>5. QED
          BY <5>1, <5>2, <5>3, <5>4 DEF Told
      <4>3. ASSUME NEW q \in Procs PROVE ~Parsing(q)' /\ (Has(q, "model")' => local'[q]["text"] = local'[q]["paper"])
        <5>1. CASE q = p
          BY <2>4, <4>1, <5>1
        <5>2. CASE q # p
          BY <1>1, <2>2, <3>2, <5>2 DEF Has
        <5>3. QED
          BY <5>1, <5>2
      <4>4. QED
        BY <1>a, <2>1, <4>2, <4>3 DEF Texts
    <3>5. QED
      BY <3>0, <3>3, <3>4
  <2>7. QED
    BY <2>5, <2>6
<1>10. CASE Clean
  <2>1. /\ disk' = [f \in Written |-> None]
        /\ handle' = [p \in Procs |-> IF handle[p] = "closed" THEN "closed" ELSE "unlinked"]
        /\ UNCHANGED <<todo, local, analyses>>
    BY <1>0, <1>10 DEF Clean
  <2>2. \A q \in Procs : (Parsing(q)' <=> Parsing(q)) /\ (Has(q, "model")' <=> Has(q, "model")) /\ handle'[q] # "shared"
    BY <2>1, SameParsing
  <2>3. disk'["text"] = None /\ disk'["meta"] = None /\ None \notin Papers
    BY <1>0, <2>1, MarksAssumption
  <2>4. Told' /\ \A q \in Procs : Parses(q)'
    BY <2>2, <2>3 DEF Told, Parses
  <2>5. QED
    BY <1>1, <1>a, <2>1, <2>2, <2>4 DEF Texts
<1>11. CASE UNCHANGED vars
  <2>1. UNCHANGED <<disk, analyses, todo, local, handle>>
    BY <1>11 DEF vars, process
  <2>2. \A q \in Procs : /\ (Parsing(q)' <=> Parsing(q)) /\ (\A x : Has(q, x)' <=> Has(q, x))
                         /\ \A x : AtStep(q, x)' <=> AtStep(q, x)
    BY <2>1, SameParsing
  <2>3. (Told' <=> Told) /\ \A q \in Procs : Parses(q)' <=> Parses(q)
    BY <2>1, <2>2 DEF Told, Parses
  <2>4. QED
    BY <1>1, <1>a, <2>1, <2>2, <2>3 DEF Texts
<1>12. ASSUME NEW p \in Procs, Does(p) PROVE mixed' \/ Texts'
  BY <1>3, <1>4, <1>5, <1>6, <1>7, <1>8, <1>9, <1>12 DEF Does
<1>13. QED
  BY <1>10, <1>11, <1>12, StepKinds

-----------------------------------------------------------------------------
(* The theorems.                                                           *)

\* What happened has happened.
LEMMA HistoryGrows ==
    ASSUME Types, \A p \in Procs : Shaped(p) /\ Knows(p), [Next]_vars
    PROVE  (raced => raced') /\ (mixed => mixed')
<1>1. ASSUME NEW p \in Procs, Does(p) PROVE (raced => raced') /\ (mixed => mixed')
  <2>1. CASE Begins(p)
    BY <2>1 DEF Begins, BeginsWith, history
  <2>2. CASE Stops(p)
    BY <2>2 DEF Stops
  <2>3. ASSUME NEW l, FindsWith(p, l) \/ AnswersWith(p, l) PROVE (raced => raced') /\ (mixed => mixed')
    BY <2>3 DEF FindsWith, AnswersWith, history
  <2>4. ASSUME NEW l, NEW M, AsksWith(p, l, M) PROVE (raced => raced') /\ (mixed => mixed')
    BY <2>4 DEF AsksWith
  <2>5. ASSUME NEW f, NEW l, NEW m, OpensWith(p, f, l, m) PROVE (raced => raced') /\ (mixed => mixed')
    BY <2>5 DEF OpensWith
  <2>6. ASSUME NEW f, NEW l, NEW v, ClosesWith(p, f, l, v) PROVE (raced => raced') /\ (mixed => mixed')
    BY <2>6 DEF ClosesWith, history
  <2>7. QED
    BY <1>1, <2>1, <2>2, <2>3, <2>4, <2>5, <2>6 DEF Does
<1>2. CASE Clean
  BY <1>2 DEF Clean
<1>3. CASE UNCHANGED vars
  BY <1>3 DEF vars, history
<1>4. QED
  BY <1>1, <1>2, <1>3, StepKinds

\* An empty workspace, and nobody at work.
LEMMA InitInvariant == Init => IInv
<1> SUFFICES ASSUME Init PROVE IInv
  OBVIOUS
<1>1. /\ disk = [f \in Written |-> None] /\ analyses = << >>
      /\ mode = [p \in Procs |-> "off"] /\ memory = [p \in Procs |-> Nothing] /\ local = [p \in Procs |-> Nothing]
      /\ todo = [p \in Procs |-> << >>] /\ handle = [p \in Procs |-> "closed"]
      /\ commands = 0 /\ cleans = 0 /\ raced = FALSE /\ mixed = FALSE
  BY DEF Init
<1>2. Nothing \in Sessions /\ Sources(Nothing) = {} /\ << >> \in Seq(Steps) /\ Increasing(<< >>) /\ Range(<< >>) = {}
  BY NothingHeld, SingleStep
<1>3. disk["text"] = None /\ disk["meta"] = None /\ disk["analysis"] = None /\ disk["discovery"] = None /\ disk["strategy"] = None
  BY <1>1 DEF Written, Results
<1>4. Types
  <2>1. disk \in [Written -> Values]
    BY <1>1 DEF Values
  <2>2. DiskTyped
    BY <1>3, <2>1 DEF DiskTyped
  <2>3. Processes
    BY <1>1, <1>2 DEF Processes
  <2>4. Answers
    BY <1>1 DEF Answers
  <2>6. Counters
    <3>1. MaxCommands \in Nat /\ MaxCleans \in Nat
      BY BoundsAssumption
    <3>2. commands \in 0..MaxCommands /\ cleans \in 0..MaxCleans
      BY <1>1, <3>1
    <3>3. {raced, mixed} \subseteq BOOLEAN
      BY <1>1, Zenon
    <3>4. QED
      BY <3>2, <3>3 DEF Counters
  <2>5. QED
    BY <2>2, <2>3, <2>4, <2>6, TypeParts
<1>5. ASSUME NEW p \in Procs
      PROVE  /\ todo[p] = << >> /\ (\A x : ~Has(p, x)) /\ (\A x : ~AtStep(p, x))
             /\ ~Keeper(p) /\ ~Saving(p) /\ ~Parsing(p) /\ handle[p] = "closed" /\ memory[p] = Nothing
  <2>1. todo[p] = << >> /\ handle[p] = "closed" /\ memory[p] = Nothing
    BY <1>1
  <2>2. (\A x : ~Has(p, x)) /\ (\A x : ~AtStep(p, x))
    BY <1>2, <2>1 DEF Has, AtStep
  <2>3. ~Keeper(p) /\ ~Saving(p) /\ ~Parsing(p)
    BY <2>2 DEF Keeper, Saving, Parsing, Has
  <2>4. QED
    BY <2>1, <2>2, <2>3
<1>6. ASSUME NEW p \in Procs PROVE Shaped(p) /\ Knows(p)
  BY <1>2, <1>5 DEF Shaped, Knows
<1>7. Bare(disk)
  BY <1>3 DEF Bare, Sources
<1>8. Lineage
  <2>1. Start
    BY <1>2, <1>5, <1>7 DEF Start, Bare
  <2>2. Common(None)
    BY <1>2, <1>5, <1>7 DEF Common, From, Bare
  <2>3. QED
    BY <1>2, <1>5, <2>1, <2>2 DEF Lineage, Bare
<1>9. Texts
  <2>1. Told
    BY <1>3, MarksAssumption DEF Told
  <2>2. Analyses = {}
    BY <1>1 DEF Analyses
  <2>3. QED
    BY <1>5, <2>1, <2>2 DEF Texts
<1>10. QED
  BY <1>4, <1>6, <1>8, <1>9 DEF IInv

\* Every step keeps the invariant.
LEMMA NextInvariant == IInv /\ [Next]_vars => IInv'
<1> SUFFICES ASSUME IInv, [Next]_vars PROVE IInv'
  OBVIOUS
<1>1. Types /\ \A p \in Procs : Shaped(p) /\ Knows(p)
  BY DEF IInv
<1>2. Types'
  BY <1>1, TypesStep
<1>3. \A p \in Procs : Shaped(p)' /\ Knows(p)'
  BY <1>1, KnowsStep
<1>4. (raced => raced') /\ (mixed => mixed')
  BY <1>1, HistoryGrows
<1>5. raced' \/ Lineage'
  BY <1>1, <1>2, <1>3, <1>4, LineageStep DEF IInv
<1>6. mixed' \/ Texts'
  BY <1>1, <1>2, <1>3, <1>4, TextsStep DEF IInv
<1>7. QED
  BY <1>2, <1>3, <1>5, <1>6 DEF IInv

\* The inductive invariant of the workspace: who still has to do what, and what
\* everything that is kept, or will be, stands on.
THEOREM WorkspaceInvariant == Spec => []IInv
BY InitInvariant, NextInvariant, PTL DEF Spec

\* Files, sessions and handlers have the types their readers expect; no session
\* ever holds a file that could not be read.
THEOREM TypeCorrect == Spec => []TypeOK
<1>1. IInv => TypeOK
  BY DEF IInv, Types
<1>2. QED
  BY <1>1, WorkspaceInvariant, PTL

\* Everything in a workspace comes from one analysis, and an analysis from the
\* text of its own paper, however many consoles and commands share it and
\* wherever they die, but for what the property excepts.
THEOREM LineageHolds == Spec => []OneLineage
<1>1. IInv => OneLineage
  <2> SUFFICES ASSUME IInv PROVE OneLineage
    OBVIOUS
  <2>1. ASSUME ~raced PROVE Cardinality(InUse) <= 1
    <3>1. PICK a : Common(a)
      BY <2>1 DEF IInv, Lineage
    <3>2. InUse \subseteq {a}
      BY <3>1 DEF Common, From, InUse
    <3>3. InUse = {} \/ InUse = {a}
      BY <3>2
    <3>4. Cardinality({}) = 0 /\ Cardinality({a}) = 1
      BY FS_EmptySet, FS_Singleton
    <3>5. QED
      BY <3>3, <3>4
  <2>2. mixed \/ \A a \in Analyses : analyses[a].text = analyses[a].paper
    BY DEF IInv, Texts
  <2>3. QED
    BY <2>1, <2>2 DEF OneLineage
<1>2. QED
  BY <1>1, WorkspaceInvariant, PTL
=============================================================================
