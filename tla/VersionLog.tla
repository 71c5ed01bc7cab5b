----------------------------- MODULE VersionLog -----------------------------
(***************************************************************************)
(* What the gateway promises about the versions of rubrics, whatever       *)
(* transactions overlap behind it: a version that is there stays as it is, *)
(* every new one is its rubric's latest plus one, and the start of an      *)
(* evaluation pins a version that was the latest when it was read.         *)
(*                                                                         *)
(* RubricVersions implements this specification.                           *)
(***************************************************************************)
EXTENDS Naturals

CONSTANTS Publishers,    \* requests that create or publish; a rubric bears
                         \* the name of the one that created it
          Evaluations,
          Null

VARIABLES versions,      \* the versions there are
          pinned         \* pinned[e]: the version evaluation e is scored against

vars == <<versions, pinned>>

Version(rubric, number, by) == [rubric |-> rubric, number |-> number, by |-> by]

Latest(v) ==
    /\ v \in versions
    /\ \A w \in versions : w.rubric = v.rubric => w.number <= v.number

Init == versions = {} /\ pinned = [e \in Evaluations |-> Null]

Create(p) ==
    /\ \A v \in versions : v.rubric # p
    /\ versions' = versions \cup {Version(p, 1, p)}
    /\ UNCHANGED pinned

Publish(p, v) ==
    /\ Latest(v)
    /\ versions' = versions \cup {Version(v.rubric, v.number + 1, p)}
    /\ UNCHANGED pinned

Pin(e, v) ==
    /\ pinned[e] = Null
    /\ Latest(v)
    /\ pinned' = [pinned EXCEPT ![e] = v]
    /\ UNCHANGED versions

Next ==
    \/ \E p \in Publishers : Create(p)
    \/ \E v \in versions :
          \/ \E p \in Publishers : Publish(p, v)
          \/ \E e \in Evaluations : Pin(e, v)

Spec == Init /\ [][Next]_vars
=============================================================================
