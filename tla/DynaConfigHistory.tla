-------------------------- MODULE DynaConfigHistory --------------------------
(***************************************************************************)
(* DynaConfig with two history variables, which record what the centre and *)
(* the managers have had, and the mapping by which it implements           *)
(* ConfigSharing.                                                          *)
(***************************************************************************)
EXTENDS DynaConfig

VARIABLES
  published,     \* history: published[k], the values remote[k] has had
  held           \* history: held[m][k], the values configs[m][k] has had

local == [m \in Managers |-> [k \in Keys |-> Encode(configs[m][k])]]

Records ==
  /\ published' = [k \in Keys |-> published[k] \cup ({remote'[k]} \ {Nil})]
  /\ held' = [m \in Managers |-> [k \in Keys |-> held[m][k] \cup {local'[m][k]}]]

HInit ==
  /\ Init
  /\ published = [k \in Keys |-> {}]
  /\ held = [m \in Managers |-> [k \in Keys |-> {local[m][k]}]]

HNext == Next /\ Records
hvars == <<vars, published, held>>
HSpec == HInit /\ [][HNext]_hvars

Sharing == INSTANCE ConfigSharing
             WITH centre <- remote, written <- edited, given <- handed, announced <- told,
                  Inputs <- {Encode(c) : c \in Inputs}

\* The managers, with their syncs, watches, locks, failures and stale
\* snapshots, do what ConfigSharing promises: every step passes one value on
\* for one key, or changes nothing that a user of the package can see.
ImplementsSharing == Sharing!Spec
=============================================================================
