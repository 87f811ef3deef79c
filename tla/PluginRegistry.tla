--------------------------- MODULE PluginRegistry ---------------------------
(***************************************************************************)
(* The plugin registry (src/plugins/registry.cpp): factories that the      *)
(* program registers and factories that libraries bring, loaded and        *)
(* unloaded by several threads.  A library is mapped as long as dlopen()   *)
(* was called on it more often than dlclose().                             *)
(*                                                                         *)
(* mutex_ makes the changes of the two tables one step; dlopen(), the      *)
(* plugin made to ask for its name (the probe), and dlclose() lie outside. *)
(***************************************************************************)
EXTENDS Integers, FiniteSets, Functions

CONSTANTS
  Threads,
  Libraries,   \* the plugin libraries
  PluginOf,    \* per library, the [type, name] its plugin gives
  Builtins,    \* the [type, name] the program registers
  MaxOpens     \* bound: how often a library is mapped at a time

Plugins == Builtins \cup {PluginOf[l] : l \in Libraries}
Builtin == "builtin"

PluginAssumption ==
  /\ IsFiniteSet(Threads)
  /\ \A p \in Plugins : DOMAIN p = {"type", "name"}
  /\ Builtin \notin Libraries
  /\ MaxOpens \in Nat \ {0}

VARIABLES
  factories,  \* factories_: per [type, name], who made the factory
  dynamic,    \* dynamic_plugins_: per name, the library of its record
  opens,      \* external: how often each library is mapped
  doing       \* what a thread has still to do outside the lock

vars == <<factories, dynamic, opens, doing>>

Idle == [op |-> "idle"]

Init ==
  /\ factories = <<>>
  /\ dynamic = <<>>
  /\ opens = [l \in Libraries |-> 0]
  /\ doing = [t \in Threads |-> Idle]

With(f, key, value) == [k \in DOMAIN f \cup {key} |-> IF k = key THEN value ELSE f[k]]
Without(f, key) == Restrict(f, DOMAIN f \ {key})

\* register_factory(): a name that is taken stays as it is.
Register(p) ==
  /\ p \notin DOMAIN factories
  /\ factories' = With(factories, p, Builtin)
  /\ UNCHANGED <<dynamic, opens, doing>>

\* load_dynamic_plugin(): dlopen(), the entry points, the probe and its name.
Open(t, l) ==
  /\ doing[t] = Idle /\ opens[l] < MaxOpens
  /\ opens' = [opens EXCEPT ![l] = @ + 1]
  /\ doing' = [doing EXCEPT ![t] = [op |-> "load", library |-> l]]
  /\ UNCHANGED <<factories, dynamic>>

\* The library lacks an entry point, has another ABI, makes no plugin or gives no
\* name.
Unusable(t) ==
  /\ doing[t].op = "load"
  /\ opens' = [opens EXCEPT ![doing[t].library] = @ - 1]
  /\ doing' = [doing EXCEPT ![t] = Idle]
  /\ UNCHANGED <<factories, dynamic>>

\* Mutant: a library whose plugin is known already stays mapped.
RefuseKeepsOpen(t) ==
  /\ doing[t].op = "load"
  /\ PluginOf[doing[t].library].name \in DOMAIN dynamic
  /\ doing' = [doing EXCEPT ![t] = Idle]
  /\ UNCHANGED <<factories, dynamic, opens>>

\* The name is taken by another library, or by this one, loaded before.
Refuse(t) ==
  /\ doing[t].op = "load"
  /\ PluginOf[doing[t].library].name \in DOMAIN dynamic
  /\ opens' = [opens EXCEPT ![doing[t].library] = @ - 1]
  /\ doing' = [doing EXCEPT ![t] = Idle]
  /\ UNCHANGED <<factories, dynamic>>

\* The plugin is entered; its factory replaces one the program registered.
Enter(t) ==
  /\ doing[t].op = "load"
  /\ LET l == doing[t].library  p == PluginOf[l]
     IN  /\ p.name \notin DOMAIN dynamic
         /\ dynamic' = With(dynamic, p.name, l)
         /\ factories' = With(factories, p, l)
         /\ doing' = [doing EXCEPT ![t] = [op |-> "probe", library |-> l]]
  /\ UNCHANGED opens

\* The probe is destroyed, after the lock was given back.
EndProbe(t) ==
  /\ doing[t].op = "probe"
  /\ doing' = [doing EXCEPT ![t] = Idle]
  /\ UNCHANGED <<factories, dynamic, opens>>

\* Mutant: the record goes and the factory stays.
ForgottenRecordOnly(p) == factories

\* unload_dynamic_plugin(): what is left of the factories.
Forgotten(p) == Without(factories, p)

Unload(t, name) ==
  /\ doing[t] = Idle
  /\ name \in DOMAIN dynamic
  /\ LET l == dynamic[name]
     IN  /\ dynamic' = Without(dynamic, name)
         /\ factories' = Forgotten(PluginOf[l])
         /\ doing' = [doing EXCEPT ![t] = [op |-> "close", library |-> l]]
  /\ UNCHANGED opens

\* dlclose(), after the lock was given back.
Close(t) ==
  /\ doing[t].op = "close"
  /\ opens' = [opens EXCEPT ![doing[t].library] = @ - 1]
  /\ doing' = [doing EXCEPT ![t] = Idle]
  /\ UNCHANGED <<factories, dynamic>>

Next ==
  \/ \E p \in Builtins : Register(p)
  \/ \E t \in Threads :
       \/ \E l \in Libraries : Open(t, l)
       \/ Unusable(t) \/ Refuse(t) \/ Enter(t) \/ EndProbe(t) \/ Close(t)
       \/ \E p \in Plugins : Unload(t, p.name)

Spec == Init /\ [][Next]_vars
-----------------------------------------------------------------------------
(* Properties.                                                             *)

Doing ==
  {Idle} \cup [op : {"load", "probe", "close"}, library : Libraries]

TypeOK ==
  /\ DOMAIN factories \subseteq Plugins
  /\ \A p \in DOMAIN factories : factories[p] \in Libraries \cup {Builtin}
  /\ \A n \in DOMAIN dynamic : dynamic[n] \in Libraries /\ PluginOf[dynamic[n]].name = n
  /\ opens \in [Libraries -> 0 .. MaxOpens]
  /\ doing \in [Threads -> Doing]

\* create_plugin() calls whatever factory it finds: one that came with a library
\* is there exactly as long as the library's record, and the library is mapped,
\* although it is opened before the lock is taken and closed after.
FactoriesAreMapped ==
  /\ \A p \in DOMAIN factories : factories[p] # Builtin =>
       /\ p.name \in DOMAIN dynamic /\ dynamic[p.name] = factories[p]
       /\ opens[factories[p]] > 0
  /\ \A n \in DOMAIN dynamic : PluginOf[dynamic[n]] \in DOMAIN factories

\* A library is mapped once for its record and once for each call under way that
\* has opened it or is about to close it: refused and unloaded ones do not stay.
LibrariesAreReleased ==
  \A l \in Libraries :
    opens[l] = Cardinality({n \in DOMAIN dynamic : dynamic[n] = l})
               + Cardinality({t \in Threads : doing[t].op \in {"load", "close"}
                                              /\ doing[t].library = l})
=============================================================================
