----------------------------- MODULE Coalitions ------------------------------
(* What the Datalog engine promises about origins, without running it: every  *)
(* coalition of blocks behaves as if it had been evaluated on its own. The    *)
(* facts a coalition sees, those with no origin outside it, grow only by its  *)
(* own rules applied to what it already sees. Blocks outside the coalition    *)
(* can neither add to that view nor take from it.                             *)
EXTENDS Datalog

CONSTANTS
    Groups          \* the coalitions that are observed: sets of origins

VARIABLES
    rules,          \* the loaded rules, of all blocks
    view            \* for each coalition, the entries it sees

vars == <<rules, view>>

\* The part of a set of entries, or of rules, that a coalition owns.
Seen(entries, group) == {e \in entries : e.origin \subseteq group}
RulesOf(rs, group) == {r \in rs : r.origin \in group}

\* Any rules and any views, as long as two coalitions agree on what both see.
Init ==
    /\ rules \subseteq WorldRule
    /\ view \in [Groups -> SUBSET Entry]
    /\ \A g \in Groups : Seen(view[g], g) = view[g]
    /\ \A g, h \in Groups : Seen(view[g], h) = Seen(view[h], g)

\* One pass: each coalition applies its own rules to its own view.
Pass ==
    /\ view' = [g \in Groups |->
                   view[g] \cup Derived(RulesOf(rules, g), view[g])]
    /\ UNCHANGED rules

Spec == Init /\ [][Pass]_vars
==============================================================================
