--------------------------- MODULE ModelRegistry ---------------------------
(***************************************************************************)
(* Model profiles (providers/llm): the profiles and the active one in the  *)
(* memory of each process, the provider built from the active profile, the *)
(* overlay file user_profiles.yaml that outlives the process, the portable *)
(* file of export and import, and the keys in .env.  A `man1lab model` or  *)
(* `man1lab init` command is a process that ends with it; a console stays  *)
(* and offers list, current and use.  A save truncates the file and then   *)
(* writes it, so that a process may die in between.                        *)
(***************************************************************************)
EXTENDS Naturals

CONSTANTS Procs,      \* processes
          Consoles,   \* those that are consoles; the others run one command
          Names,      \* profile names
          Rank,       \* their alphabetical order, a number for each
          Kinds,      \* names a user may give for a provider
          Refs,       \* names of API keys
          NoName, NoSpec,
          Base,       \* the profiles of resources/conf/llm/default.yaml
          BaseActive, \* and the active one
          Overlay,    \* the user_profiles.yaml that comes with it
          Offers,     \* profiles a user adds
          Portables,  \* portable files received from elsewhere
          MaxStarts   \* bound: processes started

KNOWN_PROVIDERS == {"openai", "deepseek", "anthropic"}
PROVIDER_DEFAULTS == [openai |-> "OPENAI_API_KEY", deepseek |-> "OPENAI_API_KEY", anthropic |-> "ANTHROPIC_API_KEY"]

Specs == [provider : Kinds, reference : Refs, enabled : {"on", "off"}]
ProfileSets == UNION {[S -> Specs] : S \in SUBSET Names}
Registries == [active : Names, profiles : ProfileSets]

None == [n \in {} |-> NoSpec]
One(n, spec) == [k \in {n} |-> spec]
\* dict(g, **f).
Over(f, g) == [n \in DOMAIN f \cup DOMAIN g |-> IF n \in DOMAIN f THEN f[n] ELSE g[n]]

WellFormed(profiles) == \A n \in DOMAIN profiles : profiles[n].provider \in KNOWN_PROVIDERS

\* A file that was truncated or never written.
Blank == [active |-> NoName, profiles |-> None]
Files == Registries \cup {Blank}

ASSUME NamesAssumption == NoName \notin Names /\ Rank \in [Names -> Nat]
ASSUME RankAssumption == \A n, m \in Names : Rank[n] = Rank[m] => n = m
ASSUME ProcsAssumption == Consoles \subseteq Procs
ASSUME BaseAssumption == Base \in ProfileSets /\ WellFormed(Base) /\ BaseActive \in DOMAIN Base
ASSUME OverlayAssumption ==
    Overlay \in Registries /\ WellFormed(Overlay.profiles) /\ Overlay.active \in DOMAIN Overlay.profiles
ASSUME RefsAssumption == \A kind \in Kinds \cap DOMAIN PROVIDER_DEFAULTS : PROVIDER_DEFAULTS[kind] \in Refs
ASSUME OffersAssumption == Offers \subseteq Specs /\ NoSpec \notin Specs
ASSUME PortablesAssumption == Portables \subseteq Files

VARIABLES
    file,       \* user_profiles.yaml
    portable,   \* the portable file
    env,        \* keys in .env
    stage,      \* of each process: off, ready, save (truncates next), write, activate, done
    memory,     \* its registry
    keys,       \* the keys in its environment
    provider,   \* the profile its provider was built from
    target,     \* the profile a wizard activates after adding it
    change,     \* what it reports once its save is done
    refused,    \* the last model command of a console was refused
    fresh,      \* nobody else has saved since it read the file
    starts,
    owed,       \* profiles reported as saved and not since reported as gone
    torn,       \* a process died between truncating the file and writing it
    raced       \* a process saved over a file it had not seen

process == <<stage, memory, keys, provider, target, change, refused, fresh>>
history == <<owed, torn, raced>>
vars == <<file, portable, env, process, starts, history>>

Unchanged == [saved |-> None, lost |-> {}]
Changes == [saved : ProfileSets, lost : SUBSET Names]

-----------------------------------------------------------------------------
(* Loading, validation and the provider.                                   *)

\* load_persisted_llm_config and merge_llm_config: the overlay adds to the base
\* and replaces in it, and cannot take from it.
Merged(f) ==
    IF f = Blank THEN [active |-> BaseActive, profiles |-> Base]
    ELSE [active |-> f.active, profiles |-> Over(f.profiles, Base)]

Usable(m, available) ==
    /\ m.active \in DOMAIN m.profiles
    /\ m.profiles[m.active].enabled = "on"
    /\ m.profiles[m.active].reference \in available

\* validate_profiles.
Valid(m, available) == WellFormed(m.profiles) /\ Usable(m, available)

Resolved(m, available) == IF Valid(m, available) THEN m.profiles[m.active] ELSE NoSpec

\* sorted(profiles)[0], and its mutant: no profile is active.
Nobody(S) == NoName
FirstOf(S) == CHOOSE n \in S : \A other \in S : Rank[n] <= Rank[other]

-----------------------------------------------------------------------------
(* Processes.                                                              *)

Init ==
    /\ file \in {Blank, Overlay}
    /\ portable = Blank
    /\ env \in SUBSET Refs
    /\ stage = [p \in Procs |-> "off"]
    /\ memory = [p \in Procs |-> Merged(Blank)]
    /\ keys = [p \in Procs |-> {}]
    /\ provider = [p \in Procs |-> NoSpec]
    /\ target = [p \in Procs |-> NoName]
    /\ change = [p \in Procs |-> Unchanged]
    /\ refused = [p \in Procs |-> FALSE]
    /\ fresh = [p \in Procs |-> TRUE]
    /\ starts = 0
    /\ owed = file.profiles
    /\ torn = FALSE
    /\ raced = FALSE

\* Man1Lab(): the configuration is read and the provider resolved.
Start(p) ==
    /\ stage[p] = "off" /\ starts < MaxStarts
    /\ starts' = starts + 1
    /\ stage' = [stage EXCEPT ![p] = "ready"]
    /\ memory' = [memory EXCEPT ![p] = Merged(file)]
    /\ keys' = [keys EXCEPT ![p] = env]
    /\ provider' = [provider EXCEPT ![p] = Resolved(Merged(file), env)]
    /\ fresh' = [fresh EXCEPT ![p] = TRUE]
    /\ refused' = [refused EXCEPT ![p] = FALSE]
    /\ UNCHANGED <<file, portable, env, target, change, history>>

\* The process ends, by itself or not, and its memory with it.  A command that
\* changes nothing (list, current, test, validate) does just that.
Stop(p) ==
    /\ stage[p] # "off"
    /\ stage' = [stage EXCEPT ![p] = "off"]
    /\ memory' = [memory EXCEPT ![p] = Merged(Blank)]
    /\ keys' = [keys EXCEPT ![p] = {}]
    /\ provider' = [provider EXCEPT ![p] = NoSpec]
    /\ target' = [target EXCEPT ![p] = NoName]
    /\ change' = [change EXCEPT ![p] = Unchanged]
    /\ refused' = [refused EXCEPT ![p] = FALSE]
    /\ fresh' = [fresh EXCEPT ![p] = TRUE]
    /\ torn' = (torn \/ stage[p] = "write")
    /\ UNCHANGED <<file, portable, env, starts, owed, raced>>

\* The command succeeded in memory and goes on to save.
Persist(p, m, c) ==
    /\ memory' = [memory EXCEPT ![p] = m]
    /\ change' = [change EXCEPT ![p] = c]
    /\ stage' = [stage EXCEPT ![p] = "save"]
    /\ refused' = [refused EXCEPT ![p] = FALSE]
    /\ UNCHANGED <<file, portable, fresh, starts, history>>

\* The command is refused with the memory m; a one-command process ends.
Refuse(p, m) ==
    /\ memory' = [memory EXCEPT ![p] = m]
    /\ stage' = [stage EXCEPT ![p] = IF p \in Consoles THEN "ready" ELSE "done"]
    /\ refused' = [refused EXCEPT ![p] = TRUE]
    /\ UNCHANGED <<file, portable, change, fresh, starts, history>>

CommandLine(p) == p \notin Consoles /\ stage[p] = "ready"

-----------------------------------------------------------------------------
(* The commands.                                                           *)

Activated(p, n) == [memory[p] EXCEPT !.active = n]

\* _refresh_provider, and its mutant: the provider stays.
NotRefreshed(p, m) == provider[p]
Refreshed(p, m) == Resolved(m, keys[p])

\* set_active_profile: a profile that exists is made active before it is
\* validated, and stays active if it is not valid.
UseModel(p, n) ==
    /\ UNCHANGED <<env, keys, target>>
    /\ \/ /\ n \in DOMAIN memory[p].profiles
          /\ Valid(Activated(p, n), keys[p])
          /\ provider' = [provider EXCEPT ![p] = Refreshed(p, Activated(p, n))]
          /\ Persist(p, Activated(p, n), Unchanged)
       \/ /\ n \in DOMAIN memory[p].profiles
          /\ ~Valid(Activated(p, n), keys[p])
          /\ Refuse(p, Activated(p, n))
          /\ UNCHANGED provider
       \/ /\ n \notin DOMAIN memory[p].profiles
          /\ Refuse(p, memory[p])
          /\ UNCHANGED provider

Use(p, n) == stage[p] = "ready" /\ UseModel(p, n)

Added(p, n, s) == [memory[p] EXCEPT !.profiles = Over(One(n, s), @)]

\* A profile of that name is replaced; the provider is not built again.
AddModel(p, n, s) ==
    LET m == Added(p, n, s)
    IN IF Valid(m, keys'[p]) THEN Persist(p, m, [saved |-> One(n, s), lost |-> {}])
                             ELSE Refuse(p, m)

Add(p, n, s) ==
    /\ CommandLine(p)
    /\ s.enabled = "on"
    /\ UNCHANGED <<env, keys, provider, target>>
    /\ AddModel(p, n, s)

\* The active profile goes with --force only.
Remove(p, n, force) ==
    /\ CommandLine(p)
    /\ UNCHANGED <<env, keys, target>>
    /\ LET left == DOMAIN memory[p].profiles \ {n}
           m == [active |-> IF memory[p].active = n /\ left # {} THEN FirstOf(left) ELSE memory[p].active,
                 profiles |-> [k \in left |-> memory[p].profiles[k]]]
       IN \/ /\ n \in DOMAIN memory[p].profiles
             /\ n # memory[p].active \/ force
             /\ provider' = [provider EXCEPT ![p] = Refreshed(p, m)]
             /\ Persist(p, m, [saved |-> None, lost |-> {n}])
          \/ /\ n \notin DOMAIN memory[p].profiles \/ (n = memory[p].active /\ ~force)
             /\ Refuse(p, memory[p])
             /\ UNCHANGED provider

\* A name that is taken leaves everything as it is, and success is reported if
\* the registry is valid.
Renamed(p, old, new) ==
    LET m == memory[p]
    IN IF old \notin DOMAIN m.profiles \/ new \in DOMAIN m.profiles THEN m
       ELSE [active |-> IF m.active = old THEN new ELSE m.active,
             profiles |-> [k \in (DOMAIN m.profiles \ {old}) \cup {new} |-> m.profiles[IF k = new THEN old ELSE k]]]

Rename(p, old, new) ==
    /\ CommandLine(p)
    /\ UNCHANGED <<env, keys, provider, target>>
    /\ LET m == Renamed(p, old, new)
           known == old \in DOMAIN memory[p].profiles
           moved == IF new \in DOMAIN memory[p].profiles THEN None ELSE One(new, memory[p].profiles[old])
       IN \/ /\ known /\ Valid(m, keys[p])
             /\ Persist(p, m, [saved |-> moved, lost |-> {old} \ {new}])
          \/ /\ ~known \/ ~Valid(m, keys[p])
             /\ Refuse(p, m)

\* export_portable_config.  The process ends.
Export(p) ==
    /\ CommandLine(p)
    /\ portable' = memory[p]
    /\ stage' = [stage EXCEPT ![p] = "done"]
    /\ UNCHANGED <<file, env, memory, keys, provider, target, change, refused, fresh, starts, history>>

\* A portable file arrives from elsewhere.
Receive ==
    /\ portable = Blank
    /\ portable' \in Portables
    /\ UNCHANGED <<file, env, process, starts, history>>

\* import_portable_config.  skip_existing goes before replace; without both, a
\* name that is there refuses the whole file.
Import(p, replace, skip) ==
    /\ CommandLine(p) /\ portable # Blank
    /\ UNCHANGED <<env, keys, target>>
    /\ LET here == memory[p].profiles
           both == DOMAIN here \cap DOMAIN portable.profiles
           taken == IF skip THEN DOMAIN portable.profiles \ both ELSE DOMAIN portable.profiles
           news == [n \in taken |-> portable.profiles[n]]
           all == Over(news, here)
           m == [active |-> IF portable.active \in DOMAIN all THEN portable.active ELSE memory[p].active,
                 profiles |-> all]
           accepted == DOMAIN portable.profiles # {} /\ (both = {} \/ skip \/ replace)
       IN \/ /\ accepted /\ Valid(m, keys[p])
             /\ provider' = [provider EXCEPT ![p] = Refreshed(p, m)]
             /\ Persist(p, m, [saved |-> news, lost |-> {}])
          \/ /\ ~accepted \/ ~Valid(m, keys[p])
             /\ Refuse(p, memory[p])
             /\ UNCHANGED provider

\* setup_first_model: the key goes to .env and the environment, then the
\* profile is added, and activated once that is saved.
Wizard(p, n, kind) ==
    LET ref == PROVIDER_DEFAULTS[kind]
        spec == [provider |-> kind, reference |-> ref, enabled |-> "on"]
    IN /\ CommandLine(p)
       /\ env' = env \cup {ref}
       /\ keys' = [keys EXCEPT ![p] = @ \cup {ref}]
       /\ target' = [target EXCEPT ![p] = n]
       /\ UNCHANGED provider
       /\ AddModel(p, n, spec)

WizardActivates(p) ==
    /\ stage[p] = "activate"
    /\ provider' = [provider EXCEPT ![p] = Refreshed(p, Activated(p, target[p]))]
    /\ target' = [target EXCEPT ![p] = NoName]
    /\ IF Valid(Activated(p, target[p]), keys[p])
       THEN Persist(p, Activated(p, target[p]), Unchanged)
       ELSE Refuse(p, Activated(p, target[p]))
    /\ UNCHANGED <<env, keys>>

-----------------------------------------------------------------------------
(* save_registry_state: OmegaConf.save opens the file, which truncates it, *)
(* and writes.  Bound: two processes are not inside a save at once.        *)

Truncate(p) ==
    /\ stage[p] = "save" /\ \A q \in Procs : stage[q] # "write"
    /\ file' = Blank
    /\ stage' = [stage EXCEPT ![p] = "write"]
    /\ raced' = (raced \/ ~fresh[p])
    /\ UNCHANGED <<portable, env, memory, keys, provider, target, change, refused, fresh, starts, owed, torn>>

\* What is written is what the process has in memory.  Mutant: what the command
\* changed.
ContentsOfChange(p) == [memory[p] EXCEPT !.profiles = change[p].saved]
Contents(p) == memory[p]

Write(p) ==
    /\ stage[p] = "write"
    /\ file' = Contents(p)
    /\ fresh' = [q \in Procs |-> q = p \/ stage[q] = "off"]
    /\ owed' = LET kept == DOMAIN owed \ change[p].lost IN Over(change[p].saved, [n \in kept |-> owed[n]])
    /\ stage' = [stage EXCEPT ![p] = IF target[p] # NoName THEN "activate"
                                     ELSE IF p \in Consoles THEN "ready" ELSE "done"]
    /\ change' = [change EXCEPT ![p] = Unchanged]
    /\ UNCHANGED <<portable, env, memory, keys, provider, target, refused, starts, torn, raced>>

Next ==
    \/ Receive
    \/ \E p \in Procs :
        \/ Start(p) \/ Stop(p) \/ Export(p) \/ Truncate(p) \/ Write(p) \/ WizardActivates(p)
        \/ \E n \in Names :
            \/ Use(p, n)
            \/ \E s \in Offers : Add(p, n, s)
            \/ \E force \in BOOLEAN : Remove(p, n, force)
            \/ \E new \in Names : Rename(p, n, new)
            \/ \E kind \in Kinds \cap DOMAIN PROVIDER_DEFAULTS : Wizard(p, n, kind)
        \/ \E replace, skip \in BOOLEAN : Import(p, replace, skip)

Spec == Init /\ [][Next]_vars

-----------------------------------------------------------------------------
(* Properties.                                                             *)

TypeOK ==
    /\ file \in Files /\ portable \in Files /\ env \subseteq Refs
    /\ stage \in [Procs -> {"off", "ready", "save", "write", "activate", "done"}]
    /\ memory \in [Procs -> Registries]
    /\ keys \in [Procs -> SUBSET Refs]
    /\ provider \in [Procs -> Specs \cup {NoSpec}]
    /\ target \in [Procs -> Names \cup {NoName}]
    /\ change \in [Procs -> Changes]
    /\ owed \in ProfileSets

\* LLMManager: as long as its last change was accepted, a console's inference
\* goes to a provider built from the profile whose model and temperature it
\* sends, and there is a provider if that profile is usable.
ProviderOfActiveProfile ==
    \A p \in Consoles : stage[p] # "off" /\ ~refused[p] => provider[p] = Resolved(memory[p], keys[p])

\* Whatever the commands did and wherever a process died, the next process finds
\* well-formed profiles and an active one that exists: a bad profile cannot lock
\* the user out of all of them.  It finds a profile that was reported as added,
\* renamed or imported as it was reported, unless a process died inside a save or
\* saved what it had read before somebody else's save.
RestartFindsProfiles ==
    LET next == Merged(file) IN
    /\ WellFormed(next.profiles) /\ next.active \in DOMAIN next.profiles
    /\ (~torn /\ ~raced /\ \A p \in Procs : stage[p] # "write") =>
          \A n \in DOMAIN owed : n \in DOMAIN next.profiles /\ next.profiles[n] = owed[n]
=============================================================================
