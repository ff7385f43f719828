---------------------------- MODULE PluginLoader ----------------------------
(***************************************************************************)
(* loadPlugins() of core/plugins.ts: a depth-first walk of the dependency  *)
(* graph that initialises every plugin after its dependencies and throws   *)
(* on a cycle.  The recursion is a stack of frames, one per unfinished     *)
(* call of resolvePluginDeps(), and a step is what happens between two     *)
(* calls.                                                                  *)
(***************************************************************************)
EXTENDS Naturals, Sequences

CONSTANTS Plugin,    \* the plugins, by name
          Graphs,    \* the dependency graphs considered: plugin.deps of each plugin
          Requests   \* the arguments `plugins` considered

ASSUME LoaderAssumption == /\ Graphs \subseteq [Plugin -> Seq(Plugin)]
                           /\ Requests \subseteq Seq(Plugin)

VARIABLES deps,      \* plugin.deps
          plugins,   \* `plugins`
          at,        \* how many of `plugins` have been walked
          stack,     \* `stack`, with the position reached in plugin.deps
          loaded,    \* `loaded`, in the order of the plugin.fn() calls
          thrown     \* has a cycle been reported?

loaderVars == <<deps, plugins, at, stack, loaded, thrown>>

Frame == [plugin : Plugin, done : Nat]
Loaded == {loaded[i] : i \in DOMAIN loaded}
OnStack == {stack[i].plugin : i \in DOMAIN stack}

LoaderInit == /\ deps \in Graphs
              /\ plugins \in Requests
              /\ at = 0
              /\ stack = <<>>
              /\ loaded = <<>>
              /\ thrown = FALSE

-----------------------------------------------------------------------------
(* resolvePluginDeps(p) up to its loop, called with `rest` on the stack.   *)
Resolve(p, rest) ==
  \/ /\ p \in Loaded
     /\ stack' = rest
     /\ UNCHANGED thrown
  \/ /\ p \notin Loaded
     /\ p \in OnStack
     /\ thrown' = TRUE
     /\ stack' = rest
  \/ /\ p \notin Loaded
     /\ p \notin OnStack
     /\ stack' = Append(rest, [plugin |-> p, done |-> 0])
     /\ UNCHANGED thrown

Top == stack[Len(stack)]
Below == SubSeq(stack, 1, Len(stack) - 1)

(* The loop over `plugins`.                                                *)
ResolveRequest_Bug_SkipsLast ==
  /\ ~thrown
  /\ stack = <<>>
  /\ at + 1 < Len(plugins)
  /\ at' = at + 1
  /\ Resolve(plugins[at + 1], <<>>)
  /\ UNCHANGED <<deps, plugins, loaded>>
ResolveRequest ==
  /\ ~thrown
  /\ stack = <<>>
  /\ at < Len(plugins)
  /\ at' = at + 1
  /\ Resolve(plugins[at + 1], <<>>)
  /\ UNCHANGED <<deps, plugins, loaded>>

(* The loop over plugin.deps.                                              *)
ResolveDep ==
  /\ ~thrown
  /\ stack # <<>>
  /\ Top.done < Len(deps[Top.plugin])
  /\ Resolve(deps[Top.plugin][Top.done + 1], Append(Below, [plugin |-> Top.plugin, done |-> Top.done + 1]))
  /\ UNCHANGED <<deps, plugins, at, loaded>>

(* plugin.fn(), loaded.add() and stack.pop().                              *)
Initialise_Bug_Early ==
  /\ ~thrown
  /\ stack # <<>>
  /\ Top.done + 1 >= Len(deps[Top.plugin])
  /\ loaded' = Append(loaded, Top.plugin)
  /\ stack' = Below
  /\ UNCHANGED <<deps, plugins, at, thrown>>
Initialise ==
  /\ ~thrown
  /\ stack # <<>>
  /\ Top.done = Len(deps[Top.plugin])
  /\ loaded' = Append(loaded, Top.plugin)
  /\ stack' = Below
  /\ UNCHANGED <<deps, plugins, at, thrown>>

LoaderNext == ResolveRequest \/ ResolveDep \/ Initialise

LoaderSpec == LoaderInit /\ [][LoaderNext]_loaderVars /\ WF_loaderVars(LoaderNext)

-----------------------------------------------------------------------------
(* What the walk is to compute, by its definition.                         *)
DepSet(p) == {deps[p][i] : i \in DOMAIN deps[p]}
Requested == {plugins[i] : i \in DOMAIN plugins}
Closed(S) == Requested \subseteq S /\ \A p \in S : DepSet(p) \subseteq S
Needed == CHOOSE S \in SUBSET Plugin :
             Closed(S) /\ \A T \in SUBSET Plugin : Closed(T) => S \subseteq T
(* A set of plugins none of which can be initialised first.                *)
Cyclic(S) == S # {} /\ \A p \in S : DepSet(p) \cap S # {}

Returned == ~thrown /\ stack = <<>> /\ at = Len(plugins)

(* The types of the loader's state; the stack holds each plugin once.      *)
LoaderTypeOK == /\ deps \in Graphs /\ plugins \in Requests
                /\ at \in 0 .. Len(plugins)
                /\ stack \in Seq(Frame)
                /\ \A i, j \in DOMAIN stack : i # j => stack[i].plugin # stack[j].plugin
                /\ loaded \in Seq(Plugin)
                /\ thrown \in BOOLEAN

(* "They will be loaded before": a plugin is initialised after all of its  *)
(* dependencies.                                                           *)
DepsFirst == \A i \in DOMAIN loaded :
                DepSet(loaded[i]) \subseteq {loaded[j] : j \in 1 .. i - 1}

(* No plugin is initialised twice, however many others depend on it.       *)
LoadedOnce == \A i, j \in DOMAIN loaded : i # j => loaded[i] # loaded[j]

(* loadPlugins() returns with exactly the plugins that were asked for and  *)
(* what they need, or throws because these contain a cycle.                *)
LoadsWhatIsNeeded == /\ Returned => Loaded = Needed
                     /\ thrown => \E S \in SUBSET Needed : Cyclic(S)

(* And it does one or the other, on every graph.                           *)
Terminates == <>[](Returned \/ thrown)
=============================================================================
