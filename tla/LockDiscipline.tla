---------------------------- MODULE LockDiscipline ----------------------------
(***************************************************************************)
(* The discipline of the paths of Locks, as a property of each path alone: *)
(* what is locked is unlocked, in the same mode and once, and a map is     *)
(* read under its lock and written under its lock for writing.  The paths  *)
(* of RefreshConfig and Close do not keep it.                              *)
(***************************************************************************)
EXTENDS Locks

Guard == [configs |-> "mu", callbacks |-> "cbsMu", healthCache |-> "cacheMu",
          instances |-> "insMu", healthCheckStop |-> "hcsMu"]

PathStep == [do: {"Lock", "RLock", "Unlock", "RUnlock"}, on: Mutexes]
              \union [do: {"read", "write"}, on: Maps \union Contents]

\* What the path s does next to l.
FirstOn(s, l) ==
  CHOOSE i \in DOMAIN s : s[i].on = l /\ \A j \in DOMAIN s : s[j].on = l => i <= j
NextOn(s, l) ==
  IF \E i \in DOMAIN s : s[i].on = l THEN s[FirstOn(s, l)].do ELSE "none"

Free == {"none", "Lock", "RLock"}

\* The first step of s is in its place.
InPlace(s) ==
  LET h == Head(s) IN
  /\ h.do = "Lock" => NextOn(Tail(s), h.on) = "Unlock"
  /\ h.do = "RLock" => NextOn(Tail(s), h.on) = "RUnlock"
  /\ h.do \in {"Unlock", "RUnlock"} => NextOn(Tail(s), h.on) \in Free
  /\ h.do = "write" /\ h.on \in Maps => NextOn(s, Guard[h.on]) = "Unlock"
  /\ h.do = "read" /\ h.on \in Maps => NextOn(s, Guard[h.on]) \in {"Unlock", "RUnlock"}

Rest(s, i) == SubSeq(s, i, Len(s))

Ordered(s) == s \in Seq(PathStep) /\ \A i \in DOMAIN s : InPlace(Rest(s, i))

Disciplined(s) == Ordered(s) /\ \A l \in Mutexes : NextOn(s, l) \in Free

Undisciplined == {"RefreshConfig", "Close"}

PathsDisciplined ==
  \A op \in Names \ Undisciplined : \A path \in Paths[op] : Disciplined(path)
=============================================================================
