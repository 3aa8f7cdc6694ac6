---------------------------- MODULE ConfigSharing ----------------------------
(***************************************************************************)
(* What dynamic configuration promises, without requests, goroutines,      *)
(* locks or watches: a centre and managers that pass configurations on.    *)
(* For each key the centre has one value and each manager has one.  A      *)
(* configuration enters the system by the application of a manager or by   *)
(* an operator of the centre; from there it spreads in single steps, each  *)
(* of which touches one key at one place:                                  *)
(*   - the centre takes over a versioned value that a manager has held;    *)
(*   - a manager takes over, and announces, a valid value that the centre  *)
(*     has published and that is newer than one the manager has held.      *)
(* Both sides may be late (they pass on what was once there, not what is   *)
(* there now), but neither makes anything up.                              *)
(***************************************************************************)
EXTENDS Naturals

CONSTANTS
  Managers, Keys, Contents, Empty, Nil,
  Inputs,        \* what applications may give their managers
  Edits          \* what operators may write into the centre

VARIABLES
  centre,        \* centre[k]: the centre's value, or Nil
  published,     \* published[k]: the values that the centre has had
  written,       \* written[k]: what operators wrote into the centre
  local,         \* local[m][k]: the manager's value
  held,          \* held[m][k]: the values that the manager has had
  given,         \* given[m][k]: what its application gave the manager
  announced      \* announced[m][k]: what its callbacks were told

atCentre  == <<centre, published, written>>
atManager == <<local, held, given, announced>>
vars      == <<atCentre, atManager>>

Value == [ver: Nat, content: Contents]

Publishes(k, w) ==
  /\ centre' = [centre EXCEPT ![k] = w]
  /\ published' = [published EXCEPT ![k] = @ \cup {w}]

Holds(m, k, w) ==
  /\ local' = [local EXCEPT ![m][k] = w]
  /\ held' = [held EXCEPT ![m][k] = @ \cup {w}]

Announces(m, k, w) == announced' = [announced EXCEPT ![m][k] = @ \cup {w}]

\* What a manager may take over.
Acceptable(m, k, w) ==
  /\ w \in published[k] /\ w.content # Empty
  /\ \E h \in held[m][k] : h.ver < w.ver

(***************************************************************************)
(* From outside.                                                           *)
(***************************************************************************)
Write(k, w) ==
  /\ Publishes(k, w)
  /\ written' = [written EXCEPT ![k] = @ \cup {w}]
  /\ UNCHANGED atManager

Give(m, k, w) ==
  /\ Holds(m, k, w)
  /\ given' = [given EXCEPT ![m][k] = @ \cup {w}]
  /\ UNCHANGED <<atCentre, announced>>

(***************************************************************************)
(* Between the managers and the centre.                                    *)
(***************************************************************************)
\* A manager gives an unversioned configuration the version 1.
Stamp(m, k) ==
  /\ local[m][k].ver = 0
  /\ Holds(m, k, [local[m][k] EXCEPT !.ver = 1])
  /\ UNCHANGED <<atCentre, given, announced>>

Upload(m, k, w) ==
  /\ w \in held[m][k] /\ w.ver > 0
  /\ Publishes(k, w)
  /\ UNCHANGED <<written, atManager>>

Adopt(m, k, w) ==
  /\ Acceptable(m, k, w)
  /\ Holds(m, k, w)
  /\ UNCHANGED <<atCentre, given, announced>>

Announce(m, k, w) ==
  /\ Acceptable(m, k, w) /\ w \in held[m][k]
  /\ Announces(m, k, w)
  /\ UNCHANGED <<atCentre, local, held, given>>

\* A watch adopts and announces in one step, and what is newer than the
\* present value only.
Receive(m, k, w) ==
  /\ Acceptable(m, k, w) /\ local[m][k].ver < w.ver
  /\ Holds(m, k, w) /\ Announces(m, k, w)
  /\ UNCHANGED <<atCentre, given>>

Init ==
  /\ centre = [k \in Keys |-> Nil]
  /\ published = [k \in Keys |-> {}] /\ written = [k \in Keys |-> {}]
  /\ local \in [Managers -> [Keys -> Value]]
  /\ held = [m \in Managers |-> [k \in Keys |-> {local[m][k]}]]
  /\ given = held
  /\ announced = [m \in Managers |-> [k \in Keys |-> {}]]

Next ==
  \E k \in Keys :
    \/ \E w \in Edits : Write(k, w)
    \/ \E m \in Managers :
         \/ Stamp(m, k)
         \/ \E w \in Inputs : Give(m, k, w)
         \/ \E w \in held[m][k] : Upload(m, k, w)
         \/ \E w \in published[k] : Adopt(m, k, w) \/ Announce(m, k, w) \/ Receive(m, k, w)

Spec == Init /\ [][Next]_vars
=============================================================================
