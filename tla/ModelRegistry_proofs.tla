-------------------------- MODULE ModelRegistry_proofs --------------------------
(***************************************************************************)
(* Model profiles through any number of processes: what the next process   *)
(* finds, and whose provider a console talks to.                           *)
(***************************************************************************)
EXTENDS ModelRegistry, WellFoundedInduction, TLAPS

Types ==
    /\ TypeOK
    /\ refused \in [Procs -> BOOLEAN] /\ fresh \in [Procs -> BOOLEAN]
    /\ torn \in BOOLEAN /\ raced \in BOOLEAN

\* Has all the profiles of owed, as they were reported.
Has(profiles, these) == \A n \in DOMAIN these : n \in DOMAIN profiles /\ profiles[n] = these[n]

\* Owed once p has reported its change.
Remaining(p) == [n \in DOMAIN owed \ change[p].lost |-> owed[n]]
Reported(p) == Over(change[p].saved, Remaining(p))

\* Whose next command finds a registry to work on.
Ready(p) == stage[p] = "ready" \/ (p \in Consoles /\ stage[p] # "off")

\* Registries are worth loading, and worth saving.
Sound ==
    /\ WellFormed(Merged(file).profiles) /\ Merged(file).active \in DOMAIN Merged(file).profiles
    /\ \A p \in Procs :
          /\ Ready(p) \/ stage[p] \in {"save", "write"} =>
                /\ WellFormed(memory[p].profiles)
                /\ memory[p].active \in DOMAIN memory[p].profiles \cup DOMAIN Base
          /\ Ready(p) =>
                DOMAIN Base \subseteq DOMAIN memory[p].profiles
          /\ stage[p] = "activate" => target[p] # NoName
          /\ p \in Consoles => target[p] = NoName /\ stage[p] # "activate"

\* One process at a time is inside a save, and has seen the file it replaces.
Turns ==
    /\ \A p, q \in Procs : stage[p] = "write" /\ stage[q] = "write" => p = q
    /\ ~raced => \A p \in Procs : stage[p] = "write" => fresh[p]

\* Nothing owed is lost from the file, nor from the memory of a process that may
\* still save it.
Kept ==
    ~torn /\ ~raced =>
        /\ (\A p \in Procs : stage[p] # "write") => Has(Merged(file).profiles, owed)
        /\ \A p \in Procs : fresh[p] /\ (\A q \in Procs \ {p} : stage[q] # "write") =>
              /\ stage[p] \in {"ready", "activate"} => Has(memory[p].profiles, owed)
              /\ stage[p] \in {"save", "write"} => Has(memory[p].profiles, Reported(p))

IInv == Types /\ Sound /\ Turns /\ Kept /\ ProviderOfActiveProfile

-----------------------------------------------------------------------------
(* Profiles.                                                               *)

\* A set of profiles is a function from some of the names.
LEMMA ProfilesTyped ==
    ASSUME NEW f
    PROVE  f \in ProfileSets <=> DOMAIN f \subseteq Names /\ f \in [DOMAIN f -> Specs]
BY DEF ProfileSets

\* No profile at all is a set of profiles.
LEMMA NoneTyped == None \in ProfileSets /\ DOMAIN None = {}
BY DEF None, ProfileSets

\* One profile is a set of profiles.
LEMMA OneTyped ==
    ASSUME NEW n \in Names, NEW s \in Specs
    PROVE  One(n, s) \in ProfileSets /\ DOMAIN One(n, s) = {n} /\ One(n, s)[n] = s
<1>1. DOMAIN One(n, s) = {n} /\ One(n, s)[n] = s /\ One(n, s) \in [{n} -> Specs]
  BY DEF One
<1>2. QED
  BY <1>1, ProfilesTyped

\* Merging keeps every profile of the first and those of the second it lacks.
LEMMA OverFacts ==
    ASSUME NEW f, NEW g
    PROVE  /\ DOMAIN Over(f, g) = DOMAIN f \cup DOMAIN g
           /\ \A n \in DOMAIN f : Over(f, g)[n] = f[n]
           /\ \A n \in DOMAIN g \ DOMAIN f : Over(f, g)[n] = g[n]
BY DEF Over

\* Two sets of profiles merged are one.
LEMMA OverTyped ==
    ASSUME NEW f \in ProfileSets, NEW g \in ProfileSets
    PROVE  Over(f, g) \in ProfileSets
<1>1. DOMAIN f \subseteq Names /\ f \in [DOMAIN f -> Specs] /\ DOMAIN g \subseteq Names /\ g \in [DOMAIN g -> Specs]
  BY ProfilesTyped
<1>2. Over(f, g) \in [DOMAIN f \cup DOMAIN g -> Specs]
  BY <1>1 DEF Over
<1>3. QED
  BY <1>1, <1>2, OverFacts, ProfilesTyped

\* Part of a set of profiles is one.
LEMMA PartTyped ==
    ASSUME NEW f \in ProfileSets, NEW S \in SUBSET DOMAIN f
    PROVE  [n \in S |-> f[n]] \in ProfileSets
BY DEF ProfileSets

\* Merging two well-formed sets of profiles gives one.
LEMMA OverWellFormed ==
    ASSUME NEW f, NEW g, WellFormed(f), WellFormed(g)
    PROVE  WellFormed(Over(f, g))
<1>1. SUFFICES ASSUME NEW n \in DOMAIN Over(f, g) PROVE Over(f, g)[n].provider \in KNOWN_PROVIDERS
  BY DEF WellFormed
<1>2. (n \in DOMAIN f /\ Over(f, g)[n] = f[n]) \/ (n \in DOMAIN g /\ Over(f, g)[n] = g[n])
  BY <1>1 DEF Over
<1>3. CASE n \in DOMAIN f /\ Over(f, g)[n] = f[n]
  BY <1>3, Zenon DEF WellFormed
<1>4. CASE n \in DOMAIN g /\ Over(f, g)[n] = g[n]
  BY <1>4, Zenon DEF WellFormed
<1>5. QED
  BY <1>2, <1>3, <1>4

\* The first name in the alphabet is one of the names.
LEMMA FirstOfIn ==
    ASSUME NEW S \in SUBSET Names, S # {}
    PROVE  FirstOf(S) \in S
<1> DEFINE T == {Rank[n] : n \in S}
<1>1. T \subseteq Nat /\ T # {}
  BY NamesAssumption
<1>2. PICK x \in T : \A y \in T : ~(<<y, x>> \in OpToRel(<, Nat))
  <2> HIDE DEF T
  <2>1. QED
    BY <1>1, NatLessThanWellFounded, WFMin
<1>3. x \in Nat /\ \A y \in T : y \in Nat /\ x <= y
  <2>1. SUFFICES ASSUME NEW y \in T PROVE x \in Nat /\ y \in Nat /\ x <= y
    OBVIOUS
  <2>2. x \in Nat /\ y \in Nat
    BY <1>1
  <2>3. ~(y < x)
    BY <1>2, <2>2 DEF OpToRel
  <2>4. QED
    BY <2>2, <2>3
<1>4. PICK n \in S : x = Rank[n]
  OBVIOUS
<1>5. \A m \in S : Rank[m] \in T
  OBVIOUS
<1>6. \A m \in S : Rank[n] <= Rank[m]
  BY <1>3, <1>4, <1>5
<1>7. QED
  BY <1>6 DEF FirstOf

\* What is read from a file has all the profiles that come with the program.
LEMMA MergedFacts ==
    ASSUME NEW f \in Files
    PROVE  /\ Merged(f) \in Registries /\ f.profiles \in ProfileSets
           /\ DOMAIN Merged(f).profiles = DOMAIN f.profiles \cup DOMAIN Base
           /\ \A n \in DOMAIN f.profiles : Merged(f).profiles[n] = f.profiles[n]
           /\ WellFormed(f.profiles) => WellFormed(Merged(f).profiles)
           /\ Merged(f).active = IF f = Blank THEN BaseActive ELSE f.active
<1>1. Base \in ProfileSets /\ WellFormed(Base) /\ BaseActive \in Names
  BY BaseAssumption, ProfilesTyped
<1>2. CASE f = Blank
  <2>1. f.profiles = None /\ Merged(f).active = BaseActive /\ Merged(f).profiles = Base
    BY <1>2 DEF Blank, Merged
  <2>2. Merged(f) \in Registries
    BY <1>1, <1>2 DEF Merged, Registries
  <2>3. QED
    BY <1>1, <1>2, <2>1, <2>2, NoneTyped
<1>3. CASE f # Blank
  <2>1. f.active \in Names /\ f.profiles \in ProfileSets
    BY <1>3 DEF Files, Registries
  <2>2. Merged(f) = [active |-> f.active, profiles |-> Over(f.profiles, Base)]
    BY <1>3 DEF Merged
  <2>3. Merged(f) \in Registries
    BY <1>1, <2>1, <2>2, OverTyped DEF Registries
  <2>4. Merged(f).active = f.active /\ Merged(f).profiles = Over(f.profiles, Base)
    BY <2>2
  <2>5. WellFormed(f.profiles) => WellFormed(Over(f.profiles, Base))
    BY <1>1, OverWellFormed
  <2>6. /\ DOMAIN Over(f.profiles, Base) = DOMAIN f.profiles \cup DOMAIN Base
        /\ \A n \in DOMAIN f.profiles : Over(f.profiles, Base)[n] = f.profiles[n]
    BY OverFacts
  <2>7. QED
    BY <1>3, <2>1, <2>3, <2>4, <2>5, <2>6
<1>4. QED
  BY <1>2, <1>3

\* A provider is built from a profile, or there is none.
LEMMA ResolvedTyped ==
    ASSUME NEW m \in Registries, NEW available
    PROVE  Resolved(m, available) \in Specs \cup {NoSpec}
BY ProfilesTyped DEF Resolved, Valid, Usable, Registries

-----------------------------------------------------------------------------
(* The commands.                                                           *)

\* Worth saving: with what p reports as saved, and all it had and does not report
\* as gone.
Worth(p, m, c) ==
    /\ m \in Registries /\ c \in Changes
    /\ WellFormed(m.profiles) /\ m.active \in DOMAIN m.profiles \cup DOMAIN Base
    /\ Has(m.profiles, c.saved)
    /\ \A n \in DOMAIN memory[p].profiles \ (c.lost \cup DOMAIN c.saved) :
          n \in DOMAIN m.profiles /\ m.profiles[n] = memory[p].profiles[n]
    /\ p \in Consoles => DOMAIN Base \subseteq DOMAIN m.profiles

Succeeds(p) ==
    \E m, c : Worth(p, m, c) /\ Persist(p, m, c) /\ (p \in Consoles => provider'[p] = Resolved(m, keys'[p]))

Fails(p) ==
    \E m \in Registries : Refuse(p, m) /\ (p \in Consoles => m.profiles = memory[p].profiles /\ m.active \in DOMAIN m.profiles)

\* What a command does to keys and provider, and leaves alone.
Around(p) ==
    /\ env' \subseteq Refs /\ keys' \in [Procs -> SUBSET Refs]
    /\ provider' \in [Procs -> Specs \cup {NoSpec}] /\ target' \in [Procs -> Names \cup {NoName}]
    /\ \A q \in Procs \ {p} : keys'[q] = keys[q] /\ provider'[q] = provider[q] /\ target'[q] = target[q]
    /\ p \in Consoles => target'[p] = target[p]

Command(p) ==
    \/ WizardActivates(p)
    \/ \E n \in Names :
          \/ Use(p, n)
          \/ \E s \in Offers : Add(p, n, s)
          \/ \E force \in BOOLEAN : Remove(p, n, force)
          \/ \E new \in Names : Rename(p, n, new)
          \/ \E kind \in Kinds \cap DOMAIN PROVIDER_DEFAULTS : Wizard(p, n, kind)
    \/ \E replace, skip \in BOOLEAN : Import(p, replace, skip)

\* A registry of p's, and what is known of it before a command.
LEMMA MemoryFacts ==
    ASSUME Types, NEW p \in Procs
    PROVE  /\ memory[p] \in Registries /\ memory[p].active \in Names /\ memory[p].profiles \in ProfileSets
           /\ memory[p] = [active |-> memory[p].active, profiles |-> memory[p].profiles]
           /\ \A n \in Names : /\ Activated(p, n) \in Registries
                               /\ Activated(p, n).active = n /\ Activated(p, n).profiles = memory[p].profiles
<1>1. memory[p] \in Registries
  BY DEF Types, TypeOK
<1>2. QED
  BY <1>1 DEF Registries, Activated

\* A change that saves no new profile and loses none is a change.
LEMMA UnchangedTyped == Unchanged \in Changes /\ Unchanged.saved = None /\ Unchanged.lost = {}
BY NoneTyped DEF Unchanged, Changes

\* Another profile is made active.
LEMMA ActivateWorth ==
    ASSUME Types, NEW p \in Procs, NEW n \in Names, Valid(Activated(p, n), keys[p]),
           p \in Consoles => DOMAIN Base \subseteq DOMAIN memory[p].profiles
    PROVE  Worth(p, Activated(p, n), Unchanged)
<1>1. /\ Activated(p, n) \in Registries /\ Activated(p, n).active = n
      /\ Activated(p, n).profiles = memory[p].profiles
  BY MemoryFacts
<1>2. WellFormed(Activated(p, n).profiles) /\ Activated(p, n).active \in DOMAIN Activated(p, n).profiles
  BY DEF Valid, Usable
<1>3. QED
  BY <1>1, <1>2, UnchangedTyped, NoneTyped DEF Worth, Has

\* use_model saves another active profile or fails; either way the rest stays typed.
LEMMA UseEffect ==
    ASSUME Types, Sound, NEW p \in Procs, NEW n \in Names, Use(p, n)
    PROVE  (Succeeds(p) \/ Fails(p)) /\ Around(p)
<1>1. stage[p] = "ready" /\ UNCHANGED <<env, keys, target>> /\ UseModel(p, n)
  BY DEF Use, UseModel
<1>2. /\ provider \in [Procs -> Specs \cup {NoSpec}] /\ env \subseteq Refs /\ keys \in [Procs -> SUBSET Refs]
      /\ target \in [Procs -> Names \cup {NoName}]
      /\ DOMAIN Base \subseteq DOMAIN memory[p].profiles /\ memory[p].active \in DOMAIN memory[p].profiles
  BY <1>1 DEF Types, TypeOK, Sound, Ready
<1>3. CASE /\ Valid(Activated(p, n), keys[p])
           /\ provider' = [provider EXCEPT ![p] = Refreshed(p, Activated(p, n))]
           /\ Persist(p, Activated(p, n), Unchanged)
  <2>1. Worth(p, Activated(p, n), Unchanged)
    BY <1>2, <1>3, ActivateWorth
  <2>2. Refreshed(p, Activated(p, n)) = Resolved(Activated(p, n), keys'[p])
    BY <1>1 DEF Refreshed
  <2>3. Refreshed(p, Activated(p, n)) \in Specs \cup {NoSpec}
    BY <2>2, MemoryFacts, ResolvedTyped
  <2>4. Around(p)
    BY <1>1, <1>2, <1>3, <2>3 DEF Around
  <2>5. provider'[p] = Resolved(Activated(p, n), keys'[p])
    BY <1>2, <1>3, <2>2
  <2>6. QED
    BY <1>3, <2>1, <2>4, <2>5 DEF Succeeds
<1>4. ASSUME NEW m \in Registries, m.profiles = memory[p].profiles, m.active \in DOMAIN m.profiles,
             Refuse(p, m), UNCHANGED provider
      PROVE  (Succeeds(p) \/ Fails(p)) /\ Around(p)
  <2>1. Around(p)
    BY <1>1, <1>2, <1>4 DEF Around
  <2>2. QED
    BY <1>4, <2>1 DEF Fails
<1>5. CASE n \in DOMAIN memory[p].profiles /\ Refuse(p, Activated(p, n)) /\ UNCHANGED provider
  <2>1. /\ Activated(p, n) \in Registries /\ Activated(p, n).profiles = memory[p].profiles
        /\ Activated(p, n).active \in DOMAIN Activated(p, n).profiles
    BY <1>5, MemoryFacts
  <2>2. QED
    BY <1>4, <1>5, <2>1
<1>6. CASE Refuse(p, memory[p]) /\ UNCHANGED provider
  BY <1>2, <1>4, <1>6, MemoryFacts
<1>7. QED
  BY <1>1, <1>3, <1>5, <1>6 DEF UseModel

\* A profile is added, by itself or by the wizard.
LEMMA AddModelEffect ==
    ASSUME Types, Sound, NEW p \in Procs \ Consoles, CommandLine(p), NEW n \in Names, NEW s \in Specs, AddModel(p, n, s)
    PROVE  Succeeds(p) \/ Fails(p)
<1> DEFINE m == Added(p, n, s)
           c == [saved |-> One(n, s), lost |-> {}]
<1>1. memory[p].profiles \in ProfileSets /\ memory[p].active \in Names /\ memory[p] \in Registries
  BY MemoryFacts
<1>2. One(n, s) \in ProfileSets /\ DOMAIN One(n, s) = {n} /\ One(n, s)[n] = s
  BY OneTyped
<1>3. m.active = memory[p].active /\ m.profiles = Over(One(n, s), memory[p].profiles) /\ m \in Registries
  <2>1. Over(One(n, s), memory[p].profiles) \in ProfileSets
    BY <1>1, <1>2, OverTyped
  <2>2. QED
    BY <1>1, <2>1 DEF Added, Registries
<1>4. c \in Changes /\ c.saved = One(n, s) /\ c.lost = {}
  BY <1>2 DEF Changes
<1>5. CASE Valid(m, keys'[p]) /\ Persist(p, m, c)
  <2>1. WellFormed(m.profiles) /\ m.active \in DOMAIN m.profiles
    BY <1>5 DEF Valid, Usable
  <2>2. Has(m.profiles, One(n, s)) /\ \A k \in DOMAIN memory[p].profiles \ {n} :
                                        k \in DOMAIN m.profiles /\ m.profiles[k] = memory[p].profiles[k]
    BY <1>2, <1>3 DEF Has, Over
  <2>3. Worth(p, m, c)
    BY <1>2, <1>3, <1>4, <2>1, <2>2 DEF Worth
  <2>4. QED
    BY <1>5, <2>3 DEF Succeeds
<1>6. CASE Refuse(p, m)
  BY <1>3, <1>6 DEF Fails
<1>7. QED
  BY <1>5, <1>6 DEF AddModel

\* add_model saves a profile more or fails.
LEMMA AddEffect ==
    ASSUME Types, Sound, NEW p \in Procs, NEW n \in Names, NEW s \in Offers, Add(p, n, s)
    PROVE  (Succeeds(p) \/ Fails(p)) /\ Around(p)
<1>1. s \in Specs /\ p \in Procs \ Consoles /\ CommandLine(p) /\ AddModel(p, n, s) /\ UNCHANGED <<env, keys, provider, target>>
  BY OffersAssumption DEF Add, CommandLine
<1>2. Around(p)
  BY <1>1 DEF Around, Types, TypeOK
<1>3. QED
  BY <1>1, <1>2, AddModelEffect

\* The wizard adds the key it asked for.
LEMMA WizardEffect ==
    ASSUME Types, Sound, NEW p \in Procs, NEW n \in Names, NEW kind \in Kinds \cap DOMAIN PROVIDER_DEFAULTS, Wizard(p, n, kind)
    PROVE  (Succeeds(p) \/ Fails(p)) /\ Around(p)
<1> DEFINE ref == PROVIDER_DEFAULTS[kind]
           spec == [provider |-> kind, reference |-> ref, enabled |-> "on"]
<1>1. ref \in Refs /\ spec \in Specs
  BY RefsAssumption DEF Specs
<1> HIDE DEF ref
<1>2. /\ p \in Procs \ Consoles /\ CommandLine(p) /\ AddModel(p, n, spec)
      /\ env' = env \cup {ref} /\ keys' = [keys EXCEPT ![p] = @ \cup {ref}]
      /\ target' = [target EXCEPT ![p] = n] /\ provider' = provider
  BY DEF Wizard, CommandLine, ref
<1>3. Around(p)
  <2>1. /\ env \subseteq Refs /\ keys \in [Procs -> SUBSET Refs]
        /\ provider \in [Procs -> Specs \cup {NoSpec}] /\ target \in [Procs -> Names \cup {NoName}]
    BY DEF Types, TypeOK
  <2>2. keys' \in [Procs -> SUBSET Refs]
    BY <1>1, <1>2, <2>1
  <2>3. target' \in [Procs -> Names \cup {NoName}]
    BY <1>2, <2>1
  <2>4. \A q \in Procs \ {p} : keys'[q] = keys[q] /\ provider'[q] = provider[q] /\ target'[q] = target[q]
    BY <1>2, <2>1
  <2>5. env' \subseteq Refs /\ provider' \in [Procs -> Specs \cup {NoSpec}] /\ p \notin Consoles
    BY <1>1, <1>2, <2>1
  <2>6. QED
    BY <2>2, <2>3, <2>4, <2>5 DEF Around
<1>4. QED
  BY <1>1, <1>2, <1>3, AddModelEffect

\* The end of the wizard saves its profile as the active one or fails.
LEMMA WizardActivatesEffect ==
    ASSUME Types, Sound, NEW p \in Procs, WizardActivates(p), target[p] # NoName
    PROVE  (Succeeds(p) \/ Fails(p)) /\ Around(p)
<1> DEFINE m == Activated(p, target[p])
<1>1. /\ provider \in [Procs -> Specs \cup {NoSpec}] /\ env \subseteq Refs /\ keys \in [Procs -> SUBSET Refs]
      /\ target \in [Procs -> Names \cup {NoName}] /\ target[p] \in Names
  BY DEF Types, TypeOK
<1>2. p \notin Consoles /\ UNCHANGED <<env, keys>> /\ provider' = [provider EXCEPT ![p] = Refreshed(p, m)]
      /\ target' = [target EXCEPT ![p] = NoName]
  BY DEF WizardActivates, Sound
<1>3. m \in Registries /\ Refreshed(p, m) \in Specs \cup {NoSpec}
  <2>1. m \in Registries
    BY <1>1, MemoryFacts
  <2>2. QED
    BY <2>1, ResolvedTyped DEF Refreshed
<1>4. Around(p)
  <2>1. provider' \in [Procs -> Specs \cup {NoSpec}] /\ target' \in [Procs -> Names \cup {NoName}]
    BY <1>1, <1>2, <1>3
  <2>2. \A q \in Procs \ {p} : keys'[q] = keys[q] /\ provider'[q] = provider[q] /\ target'[q] = target[q]
    BY <1>1, <1>2
  <2>3. QED
    BY <1>1, <1>2, <2>1, <2>2 DEF Around
<1>5. CASE Valid(m, keys[p]) /\ Persist(p, m, Unchanged)
  <2>1. Worth(p, m, Unchanged)
    BY <1>1, <1>2, <1>5, ActivateWorth
  <2>2. QED
    BY <1>2, <1>4, <1>5, <2>1 DEF Succeeds
<1>6. CASE Refuse(p, m)
  BY <1>2, <1>3, <1>4, <1>6 DEF Fails
<1>7. QED
  BY <1>5, <1>6 DEF WizardActivates

\* A profile is removed; the first of those that are left becomes active in its place.
LEMMA RemoveEffect ==
    ASSUME Types, Sound, NEW p \in Procs, NEW n \in Names, NEW force \in BOOLEAN, Remove(p, n, force)
    PROVE  (Succeeds(p) \/ Fails(p)) /\ Around(p)
<1> DEFINE here == memory[p].profiles
           left == DOMAIN here \ {n}
           m == [active |-> IF memory[p].active = n /\ left # {} THEN FirstOf(left) ELSE memory[p].active,
                 profiles |-> [k \in left |-> here[k]]]
           c == [saved |-> None, lost |-> {n}]
<1>1. /\ stage[p] = "ready" /\ p \in Procs \ Consoles /\ UNCHANGED <<env, keys, target>>
      /\ here \in ProfileSets /\ memory[p].active \in Names /\ memory[p] \in Registries
      /\ memory[p].active \in DOMAIN here /\ DOMAIN Base \subseteq DOMAIN here /\ WellFormed(here)
      /\ DOMAIN here \subseteq Names
  BY MemoryFacts, ProfilesTyped DEF Remove, CommandLine, Sound, Ready
<1>2. /\ provider \in [Procs -> Specs \cup {NoSpec}] /\ env \subseteq Refs /\ keys \in [Procs -> SUBSET Refs]
      /\ target \in [Procs -> Names \cup {NoName}]
  BY DEF Types, TypeOK
<1>3. ASSUME n \in DOMAIN here, provider' = [provider EXCEPT ![p] = Refreshed(p, m)], Persist(p, m, c)
      PROVE  (Succeeds(p) \/ Fails(p)) /\ Around(p)
  <2>1. m.profiles \in ProfileSets /\ DOMAIN m.profiles = left /\ \A k \in left : m.profiles[k] = here[k]
    BY <1>1, PartTyped
  <2>2. m.active \in Names /\ m.active \in left \cup DOMAIN Base
    <3>1. CASE memory[p].active = n /\ left # {}
      <4>1. FirstOf(left) \in left
        BY <1>1, <3>1, FirstOfIn
      <4>2. QED
        BY <1>1, <3>1, <4>1
    <3>2. CASE memory[p].active = n /\ left = {}
      <4>1. DOMAIN here = {n}
        BY <1>1, <1>3, <3>2
      <4>2. n \in DOMAIN Base
        BY <1>1, <4>1, BaseAssumption
      <4>3. QED
        BY <1>1, <3>2, <4>2
    <3>3. CASE memory[p].active # n
      BY <1>1, <3>3
    <3>4. QED
      BY <3>1, <3>2, <3>3
  <2>3. m \in Registries
    BY <2>1, <2>2 DEF Registries
  <2>4. WellFormed(m.profiles)
    BY <1>1, <2>1 DEF WellFormed
  <2>5. c \in Changes /\ c.saved = None /\ c.lost = {n}
    BY NoneTyped DEF Changes
  <2> HIDE DEF m, c
  <2>6. Worth(p, m, c)
    BY <1>1, <2>1, <2>2, <2>3, <2>4, <2>5, NoneTyped DEF Worth, Has
  <2>7. Refreshed(p, m) \in Specs \cup {NoSpec}
    BY <2>3, ResolvedTyped DEF Refreshed
  <2>8. Around(p)
    BY <1>1, <1>2, <1>3, <2>7 DEF Around
  <2>9. QED
    BY <1>1, <1>3, <2>6, <2>8 DEF Succeeds
<1>4. CASE Refuse(p, memory[p]) /\ UNCHANGED provider
  BY <1>1, <1>2, <1>4 DEF Fails, Around
<1>5. QED
  BY <1>3, <1>4 DEF Remove

\* A profile gets another name.
LEMMA RenameEffect ==
    ASSUME Types, Sound, NEW p \in Procs, NEW old \in Names, NEW new \in Names, Rename(p, old, new)
    PROVE  (Succeeds(p) \/ Fails(p)) /\ Around(p)
<1> DEFINE here == memory[p].profiles
           m == Renamed(p, old, new)
           moved == IF new \in DOMAIN here THEN None ELSE One(new, here[old])
           c == [saved |-> moved, lost |-> {old} \ {new}]
<1>1. /\ p \in Procs \ Consoles /\ UNCHANGED <<env, keys, provider, target>>
      /\ here \in ProfileSets /\ memory[p].active \in Names /\ memory[p] \in Registries
      /\ DOMAIN here \subseteq Names /\ here \in [DOMAIN here -> Specs]
  BY MemoryFacts, ProfilesTyped DEF Rename, CommandLine
<1>2. Around(p)
  BY <1>1 DEF Around, Types, TypeOK
<1>3. CASE old \notin DOMAIN here \/ new \in DOMAIN here
  <2>1. m = memory[p]
    BY <1>3 DEF Renamed
  <2>2. ASSUME old \in DOMAIN here, Valid(m, keys[p]), Persist(p, m, c) PROVE Succeeds(p)
    <3>1. c \in Changes /\ c.saved = None /\ DOMAIN None = {}
      BY <1>1, <1>3, <2>2, NoneTyped DEF Changes
    <3>2. Worth(p, m, c)
      BY <1>1, <2>1, <2>2, <3>1 DEF Worth, Has, Valid, Usable
    <3>3. QED
      BY <1>1, <2>2, <3>2 DEF Succeeds
  <2>3. QED
    BY <1>1, <1>2, <2>1, <2>2 DEF Rename, Fails
<1>4. CASE old \in DOMAIN here /\ new \notin DOMAIN here
  <2>1. /\ m = [active |-> IF memory[p].active = old THEN new ELSE memory[p].active,
                profiles |-> [k \in (DOMAIN here \ {old}) \cup {new} |-> here[IF k = new THEN old ELSE k]]]
        /\ moved = One(new, here[old])
    BY <1>4 DEF Renamed
  <2>2. /\ DOMAIN m.profiles = (DOMAIN here \ {old}) \cup {new} /\ m.profiles[new] = here[old]
        /\ \A k \in DOMAIN here \ {old} : m.profiles[k] = here[k]
        /\ m.active \in Names
    BY <1>1, <1>4, <2>1
  <2>3. m.profiles \in ProfileSets
    <3>1. m.profiles \in [(DOMAIN here \ {old}) \cup {new} -> Specs]
      BY <1>1, <1>4, <2>1
    <3>2. QED
      BY <1>1, <2>2, <3>1, ProfilesTyped
  <2>4. m \in Registries
    BY <2>1, <2>2, <2>3 DEF Registries
  <2>5. /\ moved \in ProfileSets /\ DOMAIN moved = {new} /\ moved[new] = here[old]
        /\ c \in Changes /\ c.saved = moved /\ c.lost = {old} \ {new}
    <3>1. PICK s \in Specs : s = here[old]
      BY <1>1, <1>4
    <3>2. One(new, s) \in ProfileSets /\ DOMAIN One(new, s) = {new} /\ One(new, s)[new] = s
      BY OneTyped
    <3>3. moved = One(new, s)
      BY <2>1, <3>1
    <3>4. moved \in ProfileSets /\ DOMAIN moved = {new} /\ moved[new] = here[old]
      BY <3>1, <3>2, <3>3
    <3>5. QED
      BY <3>4 DEF Changes
  <2> HIDE DEF m, c
  <2>6. ASSUME Valid(m, keys[p]), Persist(p, m, c) PROVE Succeeds(p)
    <3>1. Worth(p, m, c)
      BY <1>1, <1>4, <2>2, <2>4, <2>5, <2>6 DEF Worth, Has, Valid, Usable
    <3>2. QED
      BY <1>1, <2>6, <3>1 DEF Succeeds
  <2>7. ASSUME Refuse(p, m) PROVE Fails(p)
    BY <1>1, <2>4, <2>7 DEF Fails
  <2>8. QED
    BY <1>2, <2>6, <2>7 DEF Rename, m, c
<1>5. QED
  BY <1>3, <1>4

\* Profiles come from the portable file.
LEMMA ImportEffect ==
    ASSUME Types, Sound, NEW p \in Procs, NEW replace \in BOOLEAN, NEW skip \in BOOLEAN, Import(p, replace, skip)
    PROVE  (Succeeds(p) \/ Fails(p)) /\ Around(p)
<1> DEFINE here == memory[p].profiles
           both == DOMAIN here \cap DOMAIN portable.profiles
           taken == IF skip THEN DOMAIN portable.profiles \ both ELSE DOMAIN portable.profiles
           news == [n \in taken |-> portable.profiles[n]]
           all == Over(news, here)
           m == [active |-> IF portable.active \in DOMAIN all THEN portable.active ELSE memory[p].active, profiles |-> all]
           c == [saved |-> news, lost |-> {}]
<1>1. /\ p \in Procs \ Consoles /\ UNCHANGED <<env, keys, target>>
      /\ here \in ProfileSets /\ memory[p].active \in Names /\ memory[p] \in Registries
  BY MemoryFacts DEF Import, CommandLine
<1>2. /\ provider \in [Procs -> Specs \cup {NoSpec}] /\ env \subseteq Refs /\ keys \in [Procs -> SUBSET Refs]
      /\ target \in [Procs -> Names \cup {NoName}]
  BY DEF Types, TypeOK
<1>3. portable.active \in Names /\ portable.profiles \in ProfileSets
  <2>1. portable \in Registries
    BY DEF Import, Types, TypeOK, Files
  <2>2. QED
    BY <2>1 DEF Registries
<1>4. news \in ProfileSets /\ DOMAIN news = taken
  BY <1>3, PartTyped
<1> HIDE DEF news
<1>5. all \in ProfileSets
  BY <1>1, <1>4, OverTyped
<1>6. m.profiles = all /\ m \in Registries /\ c \in Changes /\ c.saved = news /\ c.lost = {}
  BY <1>1, <1>3, <1>4, <1>5 DEF Registries, Changes
<1>7. /\ Has(all, news)
      /\ \A n \in DOMAIN here \ DOMAIN news : n \in DOMAIN all /\ all[n] = here[n]
  BY DEF Over, Has
<1> HIDE DEF m, c, all
<1>8. CASE Valid(m, keys[p]) /\ provider' = [provider EXCEPT ![p] = Refreshed(p, m)] /\ Persist(p, m, c)
  <2>1. Worth(p, m, c)
    BY <1>1, <1>6, <1>7, <1>8 DEF Worth, Valid, Usable
  <2>2. Refreshed(p, m) \in Specs \cup {NoSpec}
    BY <1>6, ResolvedTyped DEF Refreshed
  <2>3. Around(p)
    BY <1>1, <1>2, <1>8, <2>2 DEF Around
  <2>4. QED
    BY <1>1, <1>8, <2>1, <2>3 DEF Succeeds
<1>9. CASE Refuse(p, memory[p]) /\ UNCHANGED provider
  BY <1>1, <1>2, <1>9 DEF Fails, Around
<1>10. QED
  BY <1>8, <1>9 DEF Import, m, c, all, news

\* Every command ends in one of the two ways.
LEMMA CommandEffect ==
    ASSUME Types, Sound, NEW p \in Procs, Command(p)
    PROVE  (Succeeds(p) \/ Fails(p)) /\ Around(p) /\ stage[p] \in {"ready", "activate"}
<1>1. CASE WizardActivates(p)
  <2>1. stage[p] = "activate" /\ target[p] # NoName
    BY <1>1 DEF WizardActivates, Sound
  <2>2. QED
    BY <1>1, <2>1, WizardActivatesEffect
<1>2. ASSUME NEW n \in Names, Use(p, n) PROVE (Succeeds(p) \/ Fails(p)) /\ Around(p) /\ stage[p] = "ready"
  BY <1>2, UseEffect DEF Use
<1>3. ASSUME NEW n \in Names, NEW s \in Offers, Add(p, n, s)
      PROVE  (Succeeds(p) \/ Fails(p)) /\ Around(p) /\ stage[p] = "ready"
  BY <1>3, AddEffect DEF Add, CommandLine
<1>4. ASSUME NEW n \in Names, NEW force \in BOOLEAN, Remove(p, n, force)
      PROVE  (Succeeds(p) \/ Fails(p)) /\ Around(p) /\ stage[p] = "ready"
  BY <1>4, RemoveEffect DEF Remove, CommandLine
<1>5. ASSUME NEW n \in Names, NEW new \in Names, Rename(p, n, new)
      PROVE  (Succeeds(p) \/ Fails(p)) /\ Around(p) /\ stage[p] = "ready"
  BY <1>5, RenameEffect DEF Rename, CommandLine
<1>6. ASSUME NEW n \in Names, NEW kind \in Kinds \cap DOMAIN PROVIDER_DEFAULTS, Wizard(p, n, kind)
      PROVE  (Succeeds(p) \/ Fails(p)) /\ Around(p) /\ stage[p] = "ready"
  BY <1>6, WizardEffect DEF Wizard, CommandLine
<1>7. ASSUME NEW replace \in BOOLEAN, NEW skip \in BOOLEAN, Import(p, replace, skip)
      PROVE  (Succeeds(p) \/ Fails(p)) /\ Around(p) /\ stage[p] = "ready"
  BY <1>7, ImportEffect DEF Import, CommandLine
<1>8. QED
  BY <1>1, <1>2, <1>3, <1>4, <1>5, <1>6, <1>7 DEF Command

-----------------------------------------------------------------------------
(* Every step keeps the invariant.                                         *)

StageNames == {"off", "ready", "save", "write", "activate", "done"}

\* Every step keeps the types.
LEMMA TypesStep ==
    ASSUME Types, Sound, Next
    PROVE  Types'
<1>0. /\ file \in Files /\ portable \in Files /\ env \subseteq Refs /\ stage \in [Procs -> StageNames]
      /\ memory \in [Procs -> Registries] /\ keys \in [Procs -> SUBSET Refs]
      /\ provider \in [Procs -> Specs \cup {NoSpec}] /\ target \in [Procs -> Names \cup {NoName}]
      /\ change \in [Procs -> Changes] /\ owed \in ProfileSets
      /\ refused \in [Procs -> BOOLEAN] /\ fresh \in [Procs -> BOOLEAN] /\ torn \in BOOLEAN /\ raced \in BOOLEAN
  BY DEF Types, TypeOK, StageNames
<1>1. Blank \in Files /\ Unchanged \in Changes /\ Merged(Blank) \in Registries /\ Merged(file) \in Registries
  BY <1>0, MergedFacts, UnchangedTyped DEF Files
<1>2. SUFFICES /\ file' \in Files /\ portable' \in Files /\ env' \subseteq Refs /\ stage' \in [Procs -> StageNames]
               /\ memory' \in [Procs -> Registries] /\ keys' \in [Procs -> SUBSET Refs]
               /\ provider' \in [Procs -> Specs \cup {NoSpec}] /\ target' \in [Procs -> Names \cup {NoName}]
               /\ change' \in [Procs -> Changes] /\ owed' \in ProfileSets
               /\ refused' \in [Procs -> BOOLEAN] /\ fresh' \in [Procs -> BOOLEAN] /\ torn' \in BOOLEAN /\ raced' \in BOOLEAN
  BY DEF Types, TypeOK, StageNames
<1>3. CASE Receive
  BY <1>0, <1>3, PortablesAssumption DEF Receive, process, history
<1>4. ASSUME NEW p \in Procs, Start(p) PROVE Types'
  <2>1. Resolved(Merged(file), env) \in Specs \cup {NoSpec}
    BY <1>1, ResolvedTyped
  <2>2. /\ stage' \in [Procs -> StageNames] /\ memory' \in [Procs -> Registries] /\ keys' \in [Procs -> SUBSET Refs]
        /\ provider' \in [Procs -> Specs \cup {NoSpec}]
    BY <1>0, <1>1, <1>4, <2>1 DEF Start, StageNames
  <2>3. fresh' \in [Procs -> BOOLEAN] /\ refused' \in [Procs -> BOOLEAN]
    BY <1>0, <1>4 DEF Start
  <2>4. UNCHANGED <<file, portable, env, target, change, owed, torn, raced>>
    BY <1>4 DEF Start, history
  <2>5. QED
    BY <1>0, <2>2, <2>3, <2>4 DEF Types, TypeOK, StageNames
<1>5. ASSUME NEW p \in Procs, Stop(p) PROVE Types'
  <2>1. /\ stage' \in [Procs -> StageNames] /\ memory' \in [Procs -> Registries] /\ keys' \in [Procs -> SUBSET Refs]
        /\ provider' \in [Procs -> Specs \cup {NoSpec}]
    BY <1>0, <1>1, <1>5 DEF Stop, StageNames
  <2>2. target' \in [Procs -> Names \cup {NoName}] /\ change' \in [Procs -> Changes]
    BY <1>0, <1>1, <1>5 DEF Stop
  <2>3. fresh' \in [Procs -> BOOLEAN] /\ refused' \in [Procs -> BOOLEAN] /\ torn' \in BOOLEAN
    BY <1>0, <1>5 DEF Stop
  <2>4. UNCHANGED <<file, portable, env, owed, raced>>
    BY <1>5 DEF Stop
  <2>5. QED
    BY <1>0, <2>1, <2>2, <2>3, <2>4 DEF Types, TypeOK, StageNames
<1>6. ASSUME NEW p \in Procs, Export(p) PROVE Types'
  <2>1. memory[p] \in Files /\ stage' \in [Procs -> StageNames]
    BY <1>0, <1>6 DEF Export, Files, StageNames
  <2>2. portable' = memory[p]
        /\ UNCHANGED <<file, env, memory, keys, provider, target, change, refused, fresh, owed, torn, raced>>
    BY <1>6 DEF Export, history
  <2>3. QED
    BY <1>0, <2>1, <2>2 DEF Types, TypeOK, StageNames
<1>7. ASSUME NEW p \in Procs, Truncate(p) PROVE Types'
  <2>1. file' \in Files /\ stage' \in [Procs -> StageNames] /\ raced' \in BOOLEAN
    BY <1>0, <1>1, <1>7 DEF Truncate, StageNames
  <2>2. UNCHANGED <<portable, env, memory, keys, provider, target, change, refused, fresh, owed, torn>>
    BY <1>7 DEF Truncate
  <2>3. QED
    BY <1>0, <2>1, <2>2 DEF Types, TypeOK, StageNames
<1>8. ASSUME NEW p \in Procs, Write(p) PROVE Types'
  <2>1. file' \in Files /\ change' \in [Procs -> Changes]
    BY <1>0, <1>1, <1>8 DEF Write, Contents, Files
  <2>2. stage' \in [Procs -> StageNames]
    BY <1>0, <1>8 DEF Write, StageNames
  <2>3. fresh' \in [Procs -> BOOLEAN]
    BY <1>8 DEF Write
  <2>4. owed' \in ProfileSets
    <3>1. owed' = Over(change[p].saved, Remaining(p))
      BY <1>8 DEF Write, Remaining
    <3>2. change[p].saved \in ProfileSets
      BY <1>0 DEF Changes
    <3>3. Remaining(p) \in ProfileSets
      BY <1>0, PartTyped DEF Remaining
    <3>4. QED
      BY <3>1, <3>2, <3>3, OverTyped
  <2>5. UNCHANGED <<portable, env, memory, keys, provider, target, refused, torn, raced>>
    BY <1>8 DEF Write
  <2>6. QED
    BY <1>0, <2>1, <2>2, <2>3, <2>4, <2>5 DEF Types, TypeOK, StageNames
<1>9. ASSUME NEW p \in Procs, Command(p) PROVE Types'
  <2>1. (Succeeds(p) \/ Fails(p)) /\ Around(p)
    BY <1>9, CommandEffect
  <2>2. \/ \E m \in Registries, c \in Changes : Persist(p, m, c)
        \/ \E m \in Registries : Refuse(p, m)
    BY <2>1 DEF Succeeds, Worth, Fails
  <2>3. /\ memory' \in [Procs -> Registries] /\ change' \in [Procs -> Changes] /\ stage' \in [Procs -> StageNames]
        /\ refused' \in [Procs -> BOOLEAN] /\ UNCHANGED <<file, portable, fresh, owed, torn, raced>>
    <3>1. ASSUME NEW m \in Registries, NEW c \in Changes, Persist(p, m, c) PROVE <2>3!:
      BY <1>0, <3>1 DEF Persist, StageNames, history
    <3>2. ASSUME NEW m \in Registries, Refuse(p, m) PROVE <2>3!:
      BY <1>0, <3>2 DEF Refuse, StageNames, history
    <3>3. QED
      BY <2>2, <3>1, <3>2
  <2>4. /\ env' \subseteq Refs /\ keys' \in [Procs -> SUBSET Refs]
        /\ provider' \in [Procs -> Specs \cup {NoSpec}] /\ target' \in [Procs -> Names \cup {NoName}]
    BY <2>1 DEF Around
  <2>5. QED
    BY <1>0, <2>3, <2>4 DEF Types, TypeOK, StageNames
<1> HIDE DEF Types
<1>10. QED
  BY <1>3, <1>4, <1>5, <1>6, <1>7, <1>8, <1>9 DEF Next, Command, Types, TypeOK, StageNames

\* What a process has is its own, and only Truncate and Write touch the file.
Others(p) ==
    \A q \in Procs \ {p} : /\ stage'[q] = stage[q] /\ memory'[q] = memory[q] /\ keys'[q] = keys[q]
                           /\ provider'[q] = provider[q] /\ target'[q] = target[q] /\ change'[q] = change[q]
                           /\ refused'[q] = refused[q]

\* A command leaves it at saving, or where it may take the next one or end.
LEMMA CommandFrame ==
    ASSUME Types, Sound, NEW p \in Procs, Command(p)
    PROVE  /\ Others(p) /\ UNCHANGED <<file, owed, torn, raced, fresh>>
           /\ stage[p] \in {"ready", "activate"}
           /\ \/ /\ Succeeds(p) /\ stage'[p] = "save" /\ refused'[p] = FALSE
                 /\ \E m, c : /\ Worth(p, m, c) /\ memory'[p] = m /\ change'[p] = c
                              /\ p \in Consoles => provider'[p] = Resolved(m, keys'[p])
              \/ /\ stage'[p] = (IF p \in Consoles THEN "ready" ELSE "done") /\ refused'[p] = TRUE
                 /\ p \in Consoles => /\ memory'[p].profiles = memory[p].profiles
                                      /\ memory'[p].active \in DOMAIN memory[p].profiles
           /\ p \in Consoles => target'[p] = target[p]
<1>0. /\ stage \in [Procs -> StageNames] /\ memory \in [Procs -> Registries] /\ change \in [Procs -> Changes]
      /\ refused \in [Procs -> BOOLEAN]
  BY DEF Types, TypeOK, StageNames
<1>1. (Succeeds(p) \/ Fails(p)) /\ Around(p) /\ stage[p] \in {"ready", "activate"}
  BY CommandEffect
<1>2. CASE Succeeds(p)
  <2>1. PICK m, c : Worth(p, m, c) /\ Persist(p, m, c) /\ (p \in Consoles => provider'[p] = Resolved(m, keys'[p]))
    BY <1>2 DEF Succeeds
  <2>2. memory'[p] = m /\ change'[p] = c /\ stage'[p] = "save" /\ refused'[p] = FALSE
    BY <1>0, <2>1 DEF Persist
  <2>3. Others(p) /\ UNCHANGED <<file, owed, torn, raced, fresh>>
    BY <1>0, <1>1, <2>1 DEF Persist, Around, Others, history
  <2>4. QED
    BY <1>1, <1>2, <2>1, <2>2, <2>3 DEF Around
<1>3. CASE Fails(p)
  <2>1. PICK m \in Registries :
           Refuse(p, m) /\ (p \in Consoles => m.profiles = memory[p].profiles /\ m.active \in DOMAIN m.profiles)
    BY <1>3 DEF Fails
  <2>2. memory'[p] = m /\ stage'[p] = (IF p \in Consoles THEN "ready" ELSE "done") /\ refused'[p] = TRUE
    BY <1>0, <2>1 DEF Refuse
  <2>3. Others(p) /\ UNCHANGED <<file, owed, torn, raced, fresh>>
    BY <1>0, <1>1, <2>1 DEF Refuse, Around, Others, history
  <2>4. QED
    BY <1>1, <2>1, <2>2, <2>3 DEF Around
<1>4. QED
  BY <1>1, <1>2, <1>3

\* The steps in which a process does not take part in a command.
LEMMA PlainFrame ==
    ASSUME Types, NEW p \in Procs, Start(p) \/ Stop(p) \/ Export(p) \/ Truncate(p) \/ Write(p)
    PROVE  Others(p)
<1>0. /\ stage \in [Procs -> StageNames] /\ memory \in [Procs -> Registries] /\ change \in [Procs -> Changes]
      /\ refused \in [Procs -> BOOLEAN] /\ keys \in [Procs -> SUBSET Refs]
      /\ provider \in [Procs -> Specs \cup {NoSpec}] /\ target \in [Procs -> Names \cup {NoName}]
  BY DEF Types, TypeOK, StageNames
<1> USE <1>0 DEF Others
<1>1. CASE Start(p)
  BY <1>1 DEF Start
<1>2. CASE Stop(p)
  BY <1>2 DEF Stop
<1>3. CASE Export(p)
  BY <1>3 DEF Export
<1>4. CASE Truncate(p)
  BY <1>4 DEF Truncate
<1>5. CASE Write(p)
  BY <1>5 DEF Write
<1>6. QED
  BY <1>1, <1>2, <1>3, <1>4, <1>5

SoundFile == WellFormed(Merged(file).profiles) /\ Merged(file).active \in DOMAIN Merged(file).profiles
SoundProcess(p) ==
    /\ Ready(p) \/ stage[p] \in {"save", "write"} =>
          /\ WellFormed(memory[p].profiles)
          /\ memory[p].active \in DOMAIN memory[p].profiles \cup DOMAIN Base
    /\ Ready(p) => DOMAIN Base \subseteq DOMAIN memory[p].profiles
    /\ stage[p] = "activate" => target[p] # NoName
    /\ p \in Consoles => target[p] = NoName /\ stage[p] # "activate"

\* Whatever is in the file or goes there can be loaded.
LEMMA SoundStep ==
    ASSUME Types, Sound, Next
    PROVE  Sound'
<1>0. /\ file \in Files /\ stage \in [Procs -> StageNames] /\ memory \in [Procs -> Registries]
      /\ target \in [Procs -> Names \cup {NoName}]
  BY DEF Types, TypeOK, StageNames
<1>1. SoundFile /\ \A q \in Procs : SoundProcess(q)
  BY DEF Sound, SoundFile, SoundProcess
<1>2. SUFFICES SoundFile' /\ \A q \in Procs : SoundProcess(q)'
  BY DEF Sound, SoundFile, SoundProcess
<1>3. ASSUME NEW p \in Procs, Others(p), SoundProcess(p)' PROVE \A q \in Procs : SoundProcess(q)'
  BY <1>1, <1>3 DEF Others, SoundProcess, Ready
<1>4. CASE Receive
  <2>1. UNCHANGED <<file, stage, memory, target>>
    BY <1>4 DEF Receive, process
  <2>2. QED
    BY <1>1, <2>1 DEF SoundFile, SoundProcess, Ready
<1>5. ASSUME NEW p \in Procs, Start(p) PROVE SoundFile' /\ SoundProcess(p)'
  <2>1. stage'[p] = "ready" /\ memory'[p] = Merged(file) /\ UNCHANGED <<file, target>> /\ stage[p] = "off"
    BY <1>0, <1>5 DEF Start
  <2>2. DOMAIN Base \subseteq DOMAIN Merged(file).profiles
    BY <1>0, MergedFacts
  <2>3. QED
    BY <1>1, <2>1, <2>2 DEF SoundFile, SoundProcess, Ready
<1>6. ASSUME NEW p \in Procs, Stop(p) PROVE SoundFile' /\ SoundProcess(p)'
  <2>1. stage'[p] = "off" /\ target'[p] = NoName /\ file' = file
    BY <1>0, <1>6 DEF Stop
  <2>2. QED
    BY <1>1, <2>1 DEF SoundFile, SoundProcess, Ready
<1>7. ASSUME NEW p \in Procs, Export(p) PROVE SoundFile' /\ SoundProcess(p)'
  <2>1. stage'[p] = "done" /\ UNCHANGED <<target, file, memory>> /\ p \notin Consoles
    BY <1>0, <1>7 DEF Export, CommandLine
  <2>2. QED
    BY <1>1, <2>1 DEF SoundFile, SoundProcess, Ready
<1>8. ASSUME NEW p \in Procs, Truncate(p) PROVE SoundFile' /\ SoundProcess(p)'
  <2>1. stage[p] = "save" /\ stage'[p] = "write" /\ UNCHANGED <<target, memory>> /\ file' = Blank
    BY <1>0, <1>8 DEF Truncate
  <2>2. Merged(Blank).profiles = Base /\ Merged(Blank).active = BaseActive
    BY DEF Merged
  <2>3. SoundFile'
    BY <2>1, <2>2, BaseAssumption DEF SoundFile
  <2>4. QED
    BY <1>1, <2>1, <2>3 DEF SoundProcess, Ready
<1>9. ASSUME NEW p \in Procs, Write(p) PROVE SoundFile' /\ SoundProcess(p)'
  <2>1. /\ stage[p] = "write" /\ UNCHANGED <<target, memory>> /\ file' = memory[p]
        /\ stage'[p] = IF target[p] # NoName THEN "activate" ELSE IF p \in Consoles THEN "ready" ELSE "done"
    BY <1>0, <1>9 DEF Write, Contents
  <2>2. WellFormed(memory[p].profiles) /\ memory[p].active \in DOMAIN memory[p].profiles \cup DOMAIN Base
    BY <1>1, <2>1 DEF SoundProcess
  <2>3. memory[p] \in Files /\ memory[p] # Blank
    <3>1. memory[p] \in Registries /\ memory[p].active # NoName
      BY <1>0, NamesAssumption DEF Registries
    <3>2. QED
      BY <3>1 DEF Files, Blank
  <2>4. SoundFile'
    BY <2>1, <2>2, <2>3, MergedFacts DEF SoundFile
  <2>5. SoundProcess(p)'
    BY <1>1, <2>1, <2>2 DEF SoundProcess, Ready
  <2>6. QED
    BY <2>4, <2>5
<1>10. ASSUME NEW p \in Procs, Command(p) PROVE SoundFile' /\ SoundProcess(p)' /\ Others(p)
  <2>1. SoundFile' /\ Others(p)
    BY <1>1, <1>10, CommandFrame DEF SoundFile
  <2>2. stage[p] # "off" /\ (p \in Consoles => target'[p] = NoName)
    BY <1>1, <1>10, CommandFrame DEF SoundProcess
  <2>3. ASSUME \E m, c : Worth(p, m, c) /\ memory'[p] = m /\ stage'[p] = "save" PROVE SoundProcess(p)'
    BY <2>2, <2>3 DEF SoundProcess, Ready, Worth
  <2>4. ASSUME stage'[p] = (IF p \in Consoles THEN "ready" ELSE "done"),
               p \in Consoles => /\ memory'[p].profiles = memory[p].profiles
                                 /\ memory'[p].active \in DOMAIN memory[p].profiles
        PROVE  SoundProcess(p)'
    <3>1. CASE p \in Consoles
      BY <1>1, <2>2, <2>4, <3>1 DEF SoundProcess, Ready
    <3>2. CASE p \notin Consoles
      BY <2>4, <3>2 DEF SoundProcess, Ready
    <3>3. QED
      BY <3>1, <3>2
  <2>5. QED
    BY <1>10, <2>1, <2>3, <2>4, CommandFrame
<1>11. ASSUME NEW p \in Procs, Start(p) \/ Stop(p) \/ Export(p) \/ Truncate(p) \/ Write(p) \/ Command(p)
       PROVE  SoundFile' /\ \A q \in Procs : SoundProcess(q)'
  <2>1. SoundFile' /\ SoundProcess(p)' /\ Others(p)
    BY <1>5, <1>6, <1>7, <1>8, <1>9, <1>10, <1>11, PlainFrame
  <2>2. QED
    BY <1>3, <2>1
<1>12. QED
  BY <1>4, <1>11 DEF Next, Command

\* Saves do not overlap, and a process that is in one is not overtaken.
LEMMA TurnsStep ==
    ASSUME Types, Sound, Turns, Next
    PROVE  Turns'
<1>0. stage \in [Procs -> StageNames] /\ fresh \in [Procs -> BOOLEAN] /\ raced \in BOOLEAN
  BY DEF Types, TypeOK, StageNames
\* Nobody enters a save.
<1>1. ASSUME \A q \in Procs : stage'[q] = "write" => stage[q] = "write" /\ (fresh[q] => fresh'[q]), raced' = raced
      PROVE  Turns'
  BY <1>1 DEF Turns
<1>2. CASE Receive
  BY <1>1, <1>2 DEF Receive, process, history
<1>3. ASSUME NEW p \in Procs, Start(p) PROVE Turns'
  BY <1>0, <1>1, <1>3 DEF Start, history
<1>4. ASSUME NEW p \in Procs, Stop(p) PROVE Turns'
  BY <1>0, <1>1, <1>4 DEF Stop
<1>5. ASSUME NEW p \in Procs, Export(p) PROVE Turns'
  BY <1>0, <1>1, <1>5 DEF Export, history
<1>6. ASSUME NEW p \in Procs, Truncate(p) PROVE Turns'
  <2>1. /\ \A q \in Procs : stage[q] # "write"
        /\ \A q \in Procs \ {p} : stage'[q] = stage[q]
        /\ stage'[p] = "write" /\ fresh' = fresh /\ (raced' <=> raced \/ ~fresh[p])
    BY <1>0, <1>6 DEF Truncate
  <2>2. QED
    BY <2>1 DEF Turns
<1>7. ASSUME NEW p \in Procs, Write(p) PROVE Turns'
  <2>1. \A q \in Procs : stage[q] = "write" => q = p
    BY <1>7 DEF Turns, Write
  <2>2. stage'[p] # "write" /\ \A q \in Procs \ {p} : stage'[q] = stage[q]
    BY <1>0, <1>7 DEF Write
  <2>3. QED
    BY <2>1, <2>2 DEF Turns
<1>8. ASSUME NEW p \in Procs, Command(p) PROVE Turns'
  <2>1. Others(p) /\ UNCHANGED <<raced, fresh>> /\ stage'[p] # "write"
    BY <1>8, CommandFrame
  <2>2. QED
    BY <1>1, <2>1 DEF Others
<1>9. QED
  BY <1>2, <1>3, <1>4, <1>5, <1>6, <1>7, <1>8 DEF Next, Command

\* What a command keeps of what was owed, once it has reported what it did.
LEMMA WorthKeeps ==
    ASSUME NEW p \in Procs, NEW m, NEW c, Worth(p, m, c), Has(memory[p].profiles, owed)
    PROVE  Has(m.profiles, Over(c.saved, [n \in DOMAIN owed \ c.lost |-> owed[n]]))
<1> DEFINE rest == [n \in DOMAIN owed \ c.lost |-> owed[n]]
<1>1. SUFFICES ASSUME NEW n \in DOMAIN Over(c.saved, rest)
               PROVE  n \in DOMAIN m.profiles /\ m.profiles[n] = Over(c.saved, rest)[n]
  BY DEF Has
<1>2. CASE n \in DOMAIN c.saved
  <2>1. Over(c.saved, rest)[n] = c.saved[n]
    BY <1>2 DEF Over
  <2>2. QED
    BY <1>2, <2>1 DEF Worth, Has
<1>3. CASE n \notin DOMAIN c.saved
  <2>1. n \in DOMAIN owed \ c.lost /\ Over(c.saved, rest)[n] = owed[n]
    BY <1>1, <1>3 DEF Over
  <2>2. n \in DOMAIN memory[p].profiles /\ memory[p].profiles[n] = owed[n]
    BY <2>1 DEF Has
  <2>3. QED
    BY <1>3, <2>1, <2>2 DEF Worth
<1>4. QED
  BY <1>2, <1>3

\* What p's memory holds of what is owed.
Holds(p) ==
    /\ stage[p] \in {"ready", "activate"} => Has(memory[p].profiles, owed)
    /\ stage[p] \in {"save", "write"} => Has(memory[p].profiles, Reported(p))
Quiet(p) == \A q \in Procs \ {p} : stage[q] # "write"
Filed == (\A p \in Procs : stage[p] # "write") => Has(Merged(file).profiles, owed)

\* Nothing owed is lost.
LEMMA KeptStep ==
    ASSUME Types, Sound, Turns, Kept, Next
    PROVE  Kept'
<1>0. /\ stage \in [Procs -> StageNames] /\ fresh \in [Procs -> BOOLEAN] /\ raced \in BOOLEAN /\ torn \in BOOLEAN
      /\ file \in Files /\ memory \in [Procs -> Registries]
  BY DEF Types, TypeOK, StageNames
<1>1. SUFFICES ASSUME ~torn', ~raced'
               PROVE  Filed' /\ \A p \in Procs : fresh'[p] /\ Quiet(p)' => Holds(p)'
  BY DEF Kept, Filed, Quiet, Holds
<1> DEFINE Goal == Filed' /\ \A p \in Procs : fresh'[p] /\ Quiet(p)' => Holds(p)'
<1>2. ASSUME ~torn, ~raced PROVE Filed /\ \A p \in Procs : fresh[p] /\ Quiet(p) => Holds(p)
  BY <1>2 DEF Kept, Filed, Quiet, Holds
\* One process does something that is not part of a save.
<1>3. ASSUME NEW p \in Procs, Others(p), UNCHANGED <<file, owed, torn, raced>>, stage[p] # "write", stage'[p] # "write",
             \A q \in Procs \ {p} : fresh'[q] = fresh[q],
             fresh'[p] /\ Quiet(p)' => Holds(p)'
      PROVE  Goal
  <2>1. ~torn /\ ~raced
    BY <1>1, <1>3
  <2>2. (\A q \in Procs : stage'[q] # "write") => (\A q \in Procs : stage[q] # "write")
    BY <1>3 DEF Others
  <2>3. Filed'
    BY <1>2, <1>3, <2>1, <2>2 DEF Filed
  <2>4. ASSUME NEW q \in Procs \ {p}, fresh'[q], Quiet(q)' PROVE Holds(q)'
    <3>1. fresh[q] /\ Quiet(q)
      BY <1>3, <2>4 DEF Quiet, Others
    <3>2. stage'[q] = stage[q] /\ memory'[q] = memory[q] /\ change'[q] = change[q] /\ owed' = owed
      BY <1>3 DEF Others
    <3>3. QED
      BY <1>2, <2>1, <3>1, <3>2 DEF Holds, Reported, Remaining
  <2>5. QED
    BY <1>3, <2>3, <2>4
<1>4. CASE Receive
  <2>1. UNCHANGED <<file, stage, memory, change, fresh, owed, torn, raced>>
    BY <1>4 DEF Receive, process, history
  <2>2. QED
    BY <1>1, <1>2, <2>1 DEF Filed, Quiet, Holds, Reported, Remaining
<1>5. ASSUME NEW p \in Procs, Start(p) PROVE Goal
  <2>1. /\ stage[p] = "off" /\ stage'[p] = "ready" /\ memory'[p] = Merged(file)
        /\ UNCHANGED <<file, owed, torn, raced>> /\ \A q \in Procs \ {p} : fresh'[q] = fresh[q]
    BY <1>0, <1>5 DEF Start, history
  <2>2. ASSUME Quiet(p)' PROVE Holds(p)'
    <3>1. \A q \in Procs : stage[q] # "write"
      BY <1>5, <2>1, <2>2, PlainFrame DEF Quiet, Others
    <3>2. QED
      BY <1>1, <1>2, <2>1, <3>1 DEF Filed, Holds
  <2>3. QED
    BY <1>3, <1>5, <2>1, <2>2, PlainFrame
<1>6. ASSUME NEW p \in Procs, Stop(p) PROVE Goal
  <2>1. /\ stage[p] # "write" /\ stage'[p] = "off" /\ torn' = torn
        /\ UNCHANGED <<file, owed, raced>> /\ \A q \in Procs \ {p} : fresh'[q] = fresh[q]
    BY <1>0, <1>1, <1>6 DEF Stop
  <2>2. QED
    BY <1>3, <1>6, <2>1, PlainFrame DEF Holds
<1>7. ASSUME NEW p \in Procs, Export(p) PROVE Goal
  <2>1. /\ stage[p] = "ready" /\ stage'[p] = "done" /\ UNCHANGED <<file, owed, torn, raced, fresh>>
    BY <1>0, <1>7 DEF Export, CommandLine, history
  <2>2. QED
    BY <1>3, <1>7, <2>1, PlainFrame DEF Holds
<1>8. ASSUME NEW p \in Procs, Truncate(p) PROVE Goal
  <2>1. /\ stage[p] = "save" /\ stage'[p] = "write" /\ UNCHANGED <<memory, change, fresh, owed, torn>>
        /\ (\A q \in Procs : stage[q] # "write") /\ fresh[p] /\ ~raced
    BY <1>0, <1>1, <1>8 DEF Truncate
  <2>2. Holds(p)'
    BY <1>1, <1>2, <2>1 DEF Quiet, Holds, Reported, Remaining
  <2>3. \A q \in Procs \ {p} : ~Quiet(q)'
    BY <2>1 DEF Quiet
  <2>4. QED
    BY <2>1, <2>2, <2>3 DEF Filed
<1>9. ASSUME NEW p \in Procs, Write(p) PROVE Goal
  <2>1. /\ stage[p] = "write" /\ UNCHANGED <<memory, torn, raced>> /\ file' = memory[p]
        /\ stage'[p] \in {"activate", "ready", "done"}
        /\ owed' = Reported(p)
        /\ \A q \in Procs \ {p} : fresh'[q] => stage[q] = "off"
    BY <1>0, <1>9 DEF Write, Contents, Reported, Remaining
  <2>2. Has(memory[p].profiles, Reported(p))
    <3>1. fresh[p] /\ Quiet(p)
      BY <1>1, <2>1 DEF Turns, Quiet
    <3>2. QED
      BY <1>1, <1>2, <2>1, <3>1 DEF Holds
  <2>3. Filed'
    <3>1. memory[p] \in Files
      BY <1>0 DEF Files
    <3>2. \A n \in DOMAIN memory[p].profiles : /\ n \in DOMAIN Merged(memory[p]).profiles
                                               /\ Merged(memory[p]).profiles[n] = memory[p].profiles[n]
      BY <3>1, MergedFacts
    <3>3. QED
      BY <2>1, <2>2, <3>2 DEF Filed, Has
  <2>4. Holds(p)'
    BY <2>1, <2>2 DEF Holds
  <2>5. ASSUME NEW q \in Procs \ {p}, fresh'[q] PROVE Holds(q)'
    <3>1. stage'[q] = "off"
      BY <1>9, <2>1, <2>5, PlainFrame DEF Others
    <3>2. QED
      BY <3>1 DEF Holds
  <2>6. QED
    BY <2>3, <2>4, <2>5
<1>10. ASSUME NEW p \in Procs, Command(p) PROVE Goal
  <2>1. /\ Others(p) /\ UNCHANGED <<file, owed, torn, raced, fresh>> /\ stage[p] \in {"ready", "activate"}
        /\ stage'[p] # "write"
    BY <1>10, CommandFrame
  <2>2. ASSUME fresh'[p], Quiet(p)' PROVE Holds(p)'
    <3>1. Has(memory[p].profiles, owed)
      <4>1. fresh[p] /\ Quiet(p)
        BY <2>1, <2>2 DEF Quiet, Others
      <4>2. QED
        BY <1>1, <1>2, <2>1, <4>1 DEF Holds
    <3>2. ASSUME NEW m, NEW c, Worth(p, m, c), memory'[p] = m, change'[p] = c, stage'[p] = "save" PROVE Holds(p)'
      <4>1. Reported(p)' = Over(c.saved, [n \in DOMAIN owed \ c.lost |-> owed[n]])
        BY <2>1, <3>2 DEF Reported, Remaining
      <4>2. QED
        BY <3>1, <3>2, <4>1, WorthKeeps DEF Holds
    <3>3. ASSUME stage'[p] = (IF p \in Consoles THEN "ready" ELSE "done"),
                 p \in Consoles => memory'[p].profiles = memory[p].profiles
          PROVE  Holds(p)'
      BY <2>1, <3>1, <3>3 DEF Holds
    <3>4. QED
      BY <1>10, <3>2, <3>3, CommandFrame
  <2>3. QED
    BY <1>3, <2>1, <2>2
<1>11. QED
  BY <1>4, <1>5, <1>6, <1>7, <1>8, <1>9, <1>10 DEF Next, Command

\* A console's provider follows its active profile.
LEMMA ProviderStep ==
    ASSUME Types, Sound, ProviderOfActiveProfile, Next
    PROVE  ProviderOfActiveProfile'
<1>0. /\ stage \in [Procs -> StageNames] /\ memory \in [Procs -> Registries] /\ keys \in [Procs -> SUBSET Refs]
      /\ provider \in [Procs -> Specs \cup {NoSpec}] /\ refused \in [Procs -> BOOLEAN] /\ Consoles \subseteq Procs
  BY ProcsAssumption DEF Types, TypeOK, StageNames
<1> DEFINE Right(p) == stage[p] # "off" /\ ~refused[p] => provider[p] = Resolved(memory[p], keys[p])
<1>1. (\A p \in Consoles : Right(p)) /\ (ProviderOfActiveProfile' <=> \A p \in Consoles : Right(p)')
  BY DEF ProviderOfActiveProfile
<1>2. ASSUME NEW p \in Procs, Others(p), p \in Consoles => Right(p)' PROVE \A q \in Consoles : Right(q)'
  BY <1>0, <1>1, <1>2 DEF Others
<1>3. CASE Receive
  BY <1>3 DEF Receive, process, ProviderOfActiveProfile
<1>4. ASSUME NEW p \in Procs, Start(p) PROVE Right(p)'
  BY <1>0, <1>4 DEF Start
<1>5. ASSUME NEW p \in Procs, Stop(p) PROVE Right(p)'
  BY <1>0, <1>5 DEF Stop
<1>6. ASSUME NEW p \in Procs, Export(p) PROVE p \notin Consoles
  BY <1>6 DEF Export, CommandLine
<1>7. ASSUME NEW p \in Procs, Truncate(p) \/ Write(p), p \in Consoles PROVE Right(p)'
  <2>1. stage[p] # "off" /\ UNCHANGED <<memory, keys, provider, refused>>
    BY <1>7 DEF Truncate, Write
  <2>2. QED
    BY <1>1, <1>7, <2>1
<1>8. ASSUME NEW p \in Procs, Command(p), p \in Consoles PROVE Right(p)'
  BY <1>8, CommandFrame
<1>9. ASSUME NEW p \in Procs, Start(p) \/ Stop(p) \/ Export(p) \/ Truncate(p) \/ Write(p) \/ Command(p)
      PROVE  \A q \in Consoles : Right(q)'
  <2>1. Others(p)
    BY <1>9, PlainFrame, CommandFrame
  <2>2. p \in Consoles => Right(p)'
    BY <1>4, <1>5, <1>6, <1>7, <1>8, <1>9
  <2>3. QED
    BY <1>2, <2>1, <2>2
<1> HIDE DEF Right
<1>10. QED
  BY <1>1, <1>3, <1>9 DEF Next, Command

\* No process runs, and the file is the one that came with the program, if any.
LEMMA Initially == Init => IInv
<1> SUFFICES ASSUME Init PROVE IInv
  OBVIOUS
<1>1. /\ file \in {Blank, Overlay} /\ portable = Blank /\ env \in SUBSET Refs
      /\ stage = [p \in Procs |-> "off"] /\ memory = [p \in Procs |-> Merged(Blank)] /\ keys = [p \in Procs |-> {}]
      /\ provider = [p \in Procs |-> NoSpec] /\ target = [p \in Procs |-> NoName]
      /\ change = [p \in Procs |-> Unchanged] /\ refused = [p \in Procs |-> FALSE] /\ fresh = [p \in Procs |-> TRUE]
      /\ owed = file.profiles /\ torn = FALSE /\ raced = FALSE
  BY DEF Init
<1>2. Blank \in Files /\ Overlay \in Files /\ Unchanged \in Changes /\ Merged(Blank) \in Registries
  BY OverlayAssumption, UnchangedTyped, MergedFacts DEF Files
<1>3. file.profiles \in ProfileSets
  BY <1>1, <1>2, MergedFacts
<1>4. Types
  <2>1. /\ stage \in [Procs -> {"off", "ready", "save", "write", "activate", "done"}]
        /\ memory \in [Procs -> Registries] /\ keys \in [Procs -> SUBSET Refs]
        /\ provider \in [Procs -> Specs \cup {NoSpec}] /\ target \in [Procs -> Names \cup {NoName}]
    BY <1>1, <1>2
  <2>2. change \in [Procs -> Changes] /\ refused \in [Procs -> BOOLEAN] /\ fresh \in [Procs -> BOOLEAN]
    BY <1>1, <1>2
  <2>3. QED
    BY <1>1, <1>2, <1>3, <2>1, <2>2 DEF Types, TypeOK
<1>5. \A p \in Procs : stage[p] = "off" /\ target[p] = NoName
  BY <1>1
<1>6. /\ WellFormed(Merged(file).profiles) /\ Merged(file).active \in DOMAIN Merged(file).profiles
      /\ Has(Merged(file).profiles, owed)
  <2>1. CASE file = Blank
    <3>1. Merged(file).profiles = Base /\ Merged(file).active = BaseActive /\ owed = None
      BY <1>1, <2>1 DEF Merged, Blank
    <3>2. QED
      BY <3>1, BaseAssumption, NoneTyped DEF Has
  <2>2. CASE file = Overlay /\ file # Blank
    <3>1. /\ WellFormed(file.profiles) /\ file.active \in DOMAIN file.profiles
      BY <2>2, OverlayAssumption
    <3>2. QED
      BY <1>1, <1>2, <2>2, <3>1, MergedFacts DEF Has
  <2>3. QED
    BY <1>1, <2>1, <2>2
<1>7. Sound /\ Turns
  BY <1>5, <1>6 DEF Sound, Turns, Ready
<1>8. Kept
  BY <1>5, <1>6 DEF Kept
<1>9. ProviderOfActiveProfile
  BY <1>5, ProcsAssumption DEF ProviderOfActiveProfile
<1>10. QED
  BY <1>4, <1>7, <1>8, <1>9 DEF IInv

\* What the files and processes of the model profiles go by holds in every state.
THEOREM RegistryInvariant == Spec => []IInv
<1>1. Init => IInv
  BY Initially
<1>2. IInv /\ [Next]_vars => IInv'
  <2>1. CASE IInv /\ Next
    BY <2>1, TypesStep, SoundStep, TurnsStep, KeptStep, ProviderStep DEF IInv
  <2>2. CASE IInv /\ UNCHANGED vars
    <3>1. /\ UNCHANGED <<file, portable, env, stage, memory, keys, provider, target>>
          /\ UNCHANGED <<change, refused, fresh, owed, torn, raced>>
      BY <2>2 DEF vars, process, history
    <3>2. Types' /\ Sound' /\ Turns'
      BY <2>2, <3>1 DEF IInv, Types, TypeOK, Sound, Ready, Turns
    <3>3. Kept' /\ ProviderOfActiveProfile'
      BY <2>2, <3>1 DEF IInv, Kept, Reported, Remaining, ProviderOfActiveProfile
    <3>4. QED
      BY <3>2, <3>3 DEF IInv
  <2>3. QED
    BY <2>1, <2>2
<1>3. QED
  BY <1>1, <1>2, PTL DEF Spec

\* Every variable keeps its type: what is in memory, in the file and in the
\* portable file are registries, or a blank file.
THEOREM TypeCorrect == Spec => []TypeOK
<1>1. IInv => TypeOK
  BY DEF IInv, Types
<1>2. QED
  BY <1>1, RegistryInvariant, PTL

\* persistence.py, registry.py: with any number of consoles and
\* commands, and deaths at any step, the next process finds well-formed profiles,
\* an active one that exists, and what was reported as saved.
THEOREM ProfilesSurvive == Spec => []RestartFindsProfiles
<1>1. IInv => RestartFindsProfiles
  BY DEF IInv, Sound, Kept, Has, RestartFindsProfiles
<1>2. QED
  BY <1>1, RegistryInvariant, PTL

\* LLMManager: as long as its last change was accepted, a console's provider is
\* the one of its active profile.
THEOREM ProviderFollows == Spec => []ProviderOfActiveProfile
<1>1. IInv => ProviderOfActiveProfile
  BY DEF IInv
<1>2. QED
  BY <1>1, RegistryInvariant, PTL
=============================================================================
