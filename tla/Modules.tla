------------------------------ MODULE Modules -------------------------------
(***************************************************************************)
(* Loadable modules: the table of module.c, the shared objects behind it   *)
(* and the dispatch of events to the hooks of the modules.                 *)
(*                                                                         *)
(* CallEvent calls one hook after the other, and a hook may itself load or *)
(* unload a module, which calls CallEvent again; a signal handler does so  *)
(* at any time.  stack holds the dispatches in progress, the last one runs.*)
(***************************************************************************)
EXTENDS Vec, FiniteSets, SequencesExt

CONSTANTS
    Paths, Names,   \* paths of shared objects, names modules declare
    NameOf,         \* [Paths -> Names]
    Opens, Declares,\* paths dlopen accepts; those of them with a _minfo
    Configs,        \* lists of module blocks, [path, name], of configurations
    Meddlers,       \* types of events whose hooks load and unload modules
    MaxLoads, MaxSignals, MaxDepth  \* bounds of the exploration

NULL == "null"
Events == {"modload", "modunload", "signal", "other"}

ASSUME ModulesAssumption ==
    /\ NULL \notin Paths /\ NameOf \in [Paths -> Names]
    /\ Declares \subseteq Opens /\ Opens \subseteq Paths
    /\ Configs \subseteq Seq([path : Paths \union {NULL}, name : Paths \union {NULL}])
    /\ Meddlers \subseteq Events
    /\ MaxLoads \in Nat /\ MaxSignals \in Nat /\ MaxDepth \in Nat

VARIABLES
    modules,        \* vector of [path, id]; id tells two loads of a path apart
    refs,           \* [Paths -> Nat]: how often the object is open
    loads,          \* LoadModule calls that got as far as the table
    moduleblocks,   \* of the current configuration
    next,           \* index of InitializeModules, or 0 when it has returned
    rehashed,       \* has SIGHUP been handled?
    stack,          \* dispatches in progress, see Frame
    misused,        \* has an unload been asked for of a module that FindModule
                    \* does not return, or during an unload of that name?
    alive

mvars == <<modules, refs, loads, moduleblocks, next, rehashed, stack, misused, alive>>

Module == [path : Paths, id : 1..MaxLoads]
NoModule == [path |-> NULL, id |-> 0]

\* Mutant: the index starts before the first module.
FrameFromZero(type, m) ==
    [type |-> type, idx |-> 0, in |-> NoModule, called |-> {}, cut |-> FALSE, m |-> m]

\* One CallEvent: type; index into modules; the module whose hook is running;
\* those called so far; was the table shortened meanwhile?  m is the module an
\* EV_MODLOAD or EV_MODUNLOAD is about.
Frame(type, m) ==
    [type |-> type, idx |-> 1, in |-> NoModule, called |-> {}, cut |-> FALSE, m |-> m]

Top == Last(stack)
SetTop(f) == stack' = [stack EXCEPT ![Len(stack)] = f]
Pop == SubSeq(stack, 1, Len(stack) - 1)

-----------------------------------------------------------------------------
(***************************************************************************)
(* LoadModule, which the action that calls it continues with what follows  *)
(* on the stack.  dlopen of an object that is open counts it once more.    *)
(***************************************************************************)
Unchanged == UNCHANGED <<modules, refs, loads>>

LoadModule(str, ok) ==
    \/ /\ str = NULL                         \* assert(m && str)
       /\ alive' = FALSE /\ Unchanged /\ UNCHANGED stack
    \/ /\ str \in Paths \ Declares           \* cannot be opened, or closed again
       /\ Unchanged /\ UNCHANGED <<stack, alive>>
    \/ /\ str \in Declares /\ loads < MaxLoads
       /\ LET m == [path |-> str, id |-> loads + 1]
          IN  /\ modules' = vec_push(modules, m, ok)
              /\ stack' = Append(stack, Frame("modload", m))
       /\ refs' = [refs EXCEPT ![str] = @ + 1]
       /\ loads' = loads + 1
       /\ alive' \in IF Within(modules') THEN {TRUE} ELSE BOOLEAN

\* Indices of the modules of that name.
Named(name) == {i \in 1..Len(modules.data) : NameOf[modules.data[i].path] = name}

\* Mutant: the search goes from the end.
SpliceFromLast(name) ==
    IF Named(name) = {} THEN modules
    ELSE vec_splice(modules, (CHOOSE i \in Named(name) : \A j \in Named(name) : j <= i) - 1, 1)

\* The first module of that name goes.
SpliceNamed(name) ==
    IF Named(name) = {} THEN modules ELSE vec_splice(modules, Min(Named(name)) - 1, 1)

\* The module FindModule returns.
FindModule(name) == modules.data[Min(Named(name))]

-----------------------------------------------------------------------------
ModInit ==
    /\ modules = vec_init
    /\ refs = [p \in Paths |-> 0] /\ loads = 0
    /\ moduleblocks \in Configs /\ next = 1 /\ rehashed = FALSE
    /\ stack = <<>> /\ misused = FALSE /\ alive = TRUE

Chosen(b) == IF b.path # NULL THEN b.path ELSE b.name

\* Mutant: a module that cannot be loaded ends the loop.
InitializeNextStops(ok) ==
    /\ alive /\ stack = <<>> /\ next \in 1..Len(moduleblocks)
    /\ LoadModule(Chosen(moduleblocks[next]), ok)
    /\ next' = IF loads' = loads THEN 0 ELSE next + 1
    /\ UNCHANGED <<moduleblocks, rehashed, misused>>

\* One iteration of InitializeModules; config is read again for each.
InitializeNext(ok) ==
    /\ alive /\ stack = <<>> /\ next \in 1..Len(moduleblocks)
    /\ LoadModule(Chosen(moduleblocks[next]), ok)
    /\ next' = next + 1
    /\ UNCHANGED <<moduleblocks, rehashed, misused>>

InitializeModulesDone ==
    /\ alive /\ stack = <<>> /\ next > Len(moduleblocks)
    /\ next' = 0
    /\ UNCHANGED <<modules, refs, loads, moduleblocks, rehashed, stack, misused, alive>>

\* Somewhere in the event loop CallEvent is called: a tick, a packet, activity.
OtherEvent ==
    /\ alive /\ next = 0 /\ stack = <<>>
    /\ stack' = <<Frame("other", NoModule)>>
    /\ UNCHANGED <<modules, refs, loads, moduleblocks, next, rehashed, misused, alive>>

\* A signal interrupts whatever runs.  A successful rehash of a file with a
\* server block leaves a configuration whose module blocks are gone.
Signal(hup) ==
    /\ alive /\ Cardinality({i \in 1..Len(stack) : stack[i].type = "signal"}) < MaxSignals
    /\ stack' = Append(stack, Frame("signal", NoModule))
    /\ rehashed' = (rehashed \/ hup)
    /\ moduleblocks' = IF hup THEN <<>> ELSE moduleblocks
    /\ UNCHANGED <<modules, refs, loads, next, misused, alive>>

\* CallEvent comes to the next module and CallModuleEvent calls its hook, whose
\* code has to be there.
CallHook ==
    /\ alive /\ stack # <<>> /\ Top.in = NoModule /\ Top.idx <= Len(modules.data)
    /\ LET m == modules.data[Top.idx]
       IN  /\ SetTop([Top EXCEPT !.in = m, !.called = @ \union {m}])
           /\ alive' = (refs[m.path] > 0)
    /\ UNCHANGED <<modules, refs, loads, moduleblocks, next, rehashed, misused>>

InHook == alive /\ stack # <<>> /\ Top.in # NoModule

\* The hook returns, into code that has to be there.
HookReturns ==
    /\ InHook
    /\ SetTop([Top EXCEPT !.in = NoModule, !.idx = @ + 1])
    /\ alive' = (refs[Top.in.path] > 0)
    /\ UNCHANGED <<modules, refs, loads, moduleblocks, next, rehashed, misused>>

Meddles == InHook /\ Top.type \in Meddlers

\* Modules a hook can know of: those of the table, got from FindModule or from
\* an EV_MODLOAD, and the one its event is about, which may have left the table.
Held == (Range(modules.data) \union {Top.m}) \ {NoModule}

\* The entry UnloadModule will find is m's, also when an unload in progress has
\* taken out the one it will find.
Unloadable(m) ==
    LET name == NameOf[m.path]
    IN  /\ Named(name) # {} /\ FindModule(name) = m
        /\ \A i \in 1..Len(stack) :
              stack[i].type = "modunload" => NameOf[stack[i].m.path] # name

\* The hook loads a module,
HookLoads(p, ok) ==
    /\ Meddles
    /\ LoadModule(p, ok)
    /\ UNCHANGED <<moduleblocks, next, rehashed, misused>>

\* or unloads one: UnloadModule begins with an event.
HookUnloads(m) ==
    /\ Meddles /\ m \in Held /\ Len(stack) < MaxDepth
    /\ stack' = Append(stack, Frame("modunload", m))
    /\ misused' = (misused \/ ~Unloadable(m))
    /\ UNCHANGED <<modules, refs, loads, moduleblocks, next, rehashed, alive>>

\* Mutant: the last module is left out.
DispatchedEarly == alive /\ stack # <<>> /\ Top.in = NoModule /\ Top.idx >= Len(modules.data)

\* CallEvent has come to the end of the table.
Dispatched == alive /\ stack # <<>> /\ Top.in = NoModule /\ Top.idx > Len(modules.data)

EventDone ==
    /\ Dispatched /\ Top.type # "modunload"
    /\ stack' = Pop
    /\ UNCHANGED <<modules, refs, loads, moduleblocks, next, rehashed, misused, alive>>

(***************************************************************************)
(* UnloadModule goes on: the first entry of the name leaves the table, the *)
(* object of the handle is closed.  After a misuse a name may be read that *)
(* is no longer there, an object closed or a path freed once too often.    *)
(***************************************************************************)
UnloadModule ==
    /\ Dispatched /\ Top.type = "modunload"
    /\ modules' = SpliceNamed(NameOf[Top.m.path])
    /\ refs' = [refs EXCEPT ![Top.m.path] = IF @ = 0 THEN 0 ELSE @ - 1]
    /\ stack' = [i \in 1..Len(Pop) |-> [Pop[i] EXCEPT !.cut = TRUE]]
    /\ alive' \in IF misused THEN BOOLEAN ELSE {TRUE}
    /\ UNCHANGED <<loads, moduleblocks, next, rehashed, misused>>

ModNext ==
    \/ \E ok \in BOOLEAN : InitializeNext(ok)
    \/ InitializeModulesDone
    \/ OtherEvent
    \/ \E hup \in BOOLEAN : Signal(hup)
    \/ CallHook
    \/ HookReturns
    \/ \E p \in Paths, ok \in BOOLEAN : HookLoads(p, ok)
    \/ \E m \in Module : HookUnloads(m)
    \/ EventDone
    \/ UnloadModule

ModSpec == ModInit /\ [][ModNext]_mvars

-----------------------------------------------------------------------------
\* Type invariant.
ModTypeOK ==
    /\ modules \in Vectors(Module)
    /\ refs \in [Paths -> Nat] /\ loads \in 0..MaxLoads
    /\ moduleblocks \in Configs \union {<<>>} /\ next \in Nat
    /\ rehashed \in BOOLEAN /\ misused \in BOOLEAN /\ alive \in BOOLEAN
    /\ stack \in Seq([type : Events, idx : Nat \ {0}, in : Module \union {NoModule},
                      called : SUBSET Module, cut : BOOLEAN, m : Module \union {NoModule}])

(***************************************************************************)
(* Every module of the table has its object open, as often as it is in the *)
(* table, while the entry is searched by name and the object closed by     *)
(* handle, two modules may have one name, one may be loaded twice, and the *)
(* hooks of any event load and unload others in the middle of an unload;   *)
(* as long as every unload is asked for a module FindModule would return,  *)
(* and not during an unload of the same name.                              *)
(***************************************************************************)
HandlesOpen ==
    ~misused => \A p \in Paths :
        refs[p] = Cardinality({i \in 1..Len(modules.data) : modules.data[i].path = p})

\* CallEvent reaches every module, those loaded by a hook meanwhile included,
\* unless a module was unloaded in between: then the next one is passed over.
EveryModuleCalled ==
    Dispatched /\ ~Top.cut =>
        \A i \in 1..Len(modules.data) : modules.data[i] \in Top.called

\* Of the first n of the blocks b, those whose module can be loaded; and that
\* table d holds just these, each behind those before it.
Loadable(b, n) == {i \in 1..n : Chosen(b[i]) \in Declares}
LoadedUpto(d, b, n) ==
    /\ Len(d) = Cardinality(Loadable(b, n))
    /\ \A i \in Loadable(b, n) : d[Cardinality(Loadable(b, i))].path = Chosen(b[i])

\* When InitializeModules returns, the table holds every configured module that
\* can be loaded, in the order of the blocks, unless SIGHUP interrupted it.  It
\* is for instances whose hooks of loads and signals do not load or unload.
ConfiguredLoaded ==
    [][next # 0 /\ next' = 0 /\ ~rehashed =>
          LoadedUpto(modules.data, moduleblocks, Len(moduleblocks))]_mvars

\* The table stays within its memory as long as the capacity it believes to
\* have is there, which an allocation that failed makes untrue.
TableWithin == modules.capacity <= modules.block => Within(modules)

=============================================================================
