------------------------------ MODULE Factories ------------------------------
(***************************************************************************)
(* The two registries of constructors: of repositories                     *)
(* (infrastructure/storage/factory.go), which also keeps the instances it  *)
(* made under a name, and of collectors, one per platform                  *)
(* (infrastructure/collector/registry.go).  Each operation takes its lock  *)
(* for every access apart, and makes the instance outside it.              *)
(***************************************************************************)
EXTENDS Naturals

CONSTANTS
  Callers,
  Names,       \* names of repositories
  Types,       \* repository types and platforms
  OS,          \* the platform the program runs on, runtime.GOOS
  None,
  MaxRepos     \* bound: repositories made

VARIABLES
  registry,    \* the types with a constructor that works
  defaultType, \* the default of both registries: SetDefaultType, SetDefault
  instances,   \* f.instances
  repos,       \* per repository made: open or closed
  made,        \* number of repositories made
  call,        \* what each caller is doing
  raced        \* history: callers whose call met another one for its name

vars == <<registry, defaultType, instances, repos, made, call, raced>>

Repos == 1..MaxRepos
Idle == [op |-> "idle", at |-> "idle", name |-> None, type |-> None, got |-> None, seen |-> {}]

Init ==
  /\ registry = {OS}
  /\ defaultType \in {OS, None}
  /\ instances = [n \in Names |-> None]
  /\ repos = [r \in Repos |-> "unmade"] /\ made = 0
  /\ call = [c \in Callers |-> Idle]
  /\ raced = {}

-----------------------------------------------------------------------------
(* Operations of one critical section. *)

\* A default read during a call is one of those it may answer for.
Witness(default) ==
  [c \in Callers |-> IF call[c].op = "get_default" THEN [call[c] EXCEPT !.seen = @ \cup {default}] ELSE call[c]]

\* A constructor registered over another replaces it; a type whose constructor
\* fails answers like one that has none, with an error.
Register(t, works) ==
  /\ registry' = IF works THEN registry \cup {t} ELSE registry \ {t}
  /\ UNCHANGED <<defaultType, instances, repos, made, call, raced>>

SetDefaultType(t) ==
  /\ t # defaultType
  /\ defaultType' = t
  /\ call' = Witness(t)
  /\ UNCHANGED <<registry, instances, repos, made, raced>>

\* Clear of the collector registry.
Clear ==
  /\ registry' = {}
  /\ defaultType' = None
  /\ call' = Witness(None)
  /\ UNCHANGED <<instances, repos, made, raced>>

\* CloseAll closes every named instance, and forgets each even when its Close
\* fails.
CloseAll ==
  /\ \E n \in Names : instances[n] # None
  /\ \E failing \in SUBSET {instances[n] : n \in Names} :
       repos' = [r \in Repos |-> IF (\E n \in Names : instances[n] = r) /\ r \notin failing
                                 THEN "closed" ELSE repos[r]]
  /\ instances' = [n \in Names |-> None]
  /\ UNCHANGED <<registry, defaultType, made, call, raced>>

-----------------------------------------------------------------------------
(* GetOrCreate, CreateWithName, and GetDefault of the collectors. *)

Others(c, n) == {d \in Callers \ {c} : call[d].name = n}

Begin(c, op, at, n, t) ==
  /\ call[c] = Idle
  /\ call' = [call EXCEPT ![c] = [op |-> op, at |-> at, name |-> n, type |-> t, got |-> None,
                                  seen |-> IF op = "get_default" THEN {defaultType} ELSE {}]]
  /\ raced' = IF n # None /\ Others(c, n) # {} THEN raced \cup {c} \cup Others(c, n) ELSE raced \ {c}
  /\ UNCHANGED <<registry, defaultType, instances, repos, made>>

GetOrCreate(c, n, t) == Begin(c, "get_or_create", "get", n, t)
CreateWithName(c, n, t) == Begin(c, "create", "create", n, t)
\* CreateDefault reads the default type without the lock, and keeps no name.
CreateDefault(c) == defaultType # None /\ Begin(c, "create_default", "create", None, defaultType)
GetDefault(c) == Begin(c, "get_default", "default", None, OS)

Moved(c, at, type, got) == call' = [call EXCEPT ![c].at = at, ![c].type = type, ![c].got = got]

\* A Get that creates whatever is there.
GetBlindly(c) ==
  /\ call[c].at = "get"
  /\ Moved(c, "create", call[c].type, None)
  /\ UNCHANGED <<registry, defaultType, instances, repos, made, raced>>

\* Get under the read lock.
Get(c) ==
  /\ call[c].at = "get"
  /\ LET found == instances[call[c].name]
     IN  Moved(c, IF found = None THEN "create" ELSE "returned", call[c].type, found)
  /\ UNCHANGED <<registry, defaultType, instances, repos, made, raced>>

\* The constructor is looked up under the read lock and called without it; it
\* may be missing, or fail.
Create(c) ==
  /\ call[c].at = "create"
  /\ IF call[c].type \in registry
     THEN /\ made < MaxRepos /\ made' = made + 1
          /\ repos' = [repos EXCEPT ![made + 1] = "open"]
          /\ Moved(c, IF call[c].name = None THEN "returned" ELSE "store", call[c].type, made + 1)
     ELSE /\ Moved(c, "failed", call[c].type, None)
          /\ UNCHANGED <<repos, made>>
  /\ UNCHANGED <<registry, defaultType, instances, raced>>

\* The instance is stored; one that was there is dropped, and stays open.
Store(c) ==
  /\ call[c].at = "store"
  /\ instances' = [instances EXCEPT ![call[c].name] = call[c].got]
  /\ Moved(c, "returned", call[c].type, call[c].got)
  /\ UNCHANGED <<registry, defaultType, repos, made, raced>>

\* GetDefault reads the default platform, and looks its constructor up under
\* the lock taken again.
ReadDefault(c) ==
  /\ call[c].at = "default"
  /\ Moved(c, "lookup", IF defaultType # None THEN defaultType ELSE call[c].type, None)
  /\ UNCHANGED <<registry, defaultType, instances, repos, made, raced>>

LookupDefault(c) ==
  /\ call[c].at = "lookup"
  /\ Moved(c, IF call[c].type \in registry THEN "returned" ELSE "failed", call[c].type, None)
  /\ UNCHANGED <<registry, defaultType, instances, repos, made, raced>>

Return(c) ==
  /\ call[c].at \in {"returned", "failed"}
  /\ call' = [call EXCEPT ![c] = Idle]
  /\ UNCHANGED <<registry, defaultType, instances, repos, made, raced>>

Next ==
  \/ \E t \in Types, works \in BOOLEAN : Register(t, works)
  \/ \E t \in Types : SetDefaultType(t)
  \/ Clear \/ CloseAll
  \/ \E c \in Callers :
       \/ \E n \in Names, t \in Types : GetOrCreate(c, n, t) \/ CreateWithName(c, n, t)
       \/ GetDefault(c) \/ CreateDefault(c)
       \/ Get(c) \/ Create(c) \/ Store(c) \/ ReadDefault(c) \/ LookupDefault(c) \/ Return(c)

Spec == Init /\ [][Next]_vars

-----------------------------------------------------------------------------
\* GetOrCreate drops an instance only when another call for its name ran at
\* the same time.
SharedUnlessRaced ==
  \A c \in Callers :
    LET n == call[c].name
    IN  Store(c) /\ call[c].op = "get_or_create" /\ instances[n] # None => c \in raced

\* GetDefault answers for a platform that was the default at a moment of the
\* call, or for the one the program runs on when none was.
DefaultWasDefault ==
  \A c \in Callers :
    LookupDefault(c) => \/ call[c].type \in call[c].seen
                        \/ call[c].type = OS /\ None \in call[c].seen

\* What the factory names it has not closed.
NamedAreOpen == \A n \in Names : instances[n] # None => repos[instances[n]] = "open"

\* What a step of the registries keeps to callers that interleave: an instance
\* is shared by the callers of its name unless two of them raced to make it, no
\* named instance is closed, and the default answered for was the default.
KeepsItsWord == SharedUnlessRaced /\ DefaultWasDefault /\ NamedAreOpen'

RegistriesKeepTheirWord == [][KeepsItsWord]_vars
=============================================================================
