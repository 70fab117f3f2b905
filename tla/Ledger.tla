------------------------------- MODULE Ledger --------------------------------
(* What a system of biscuits promises, without keys, signatures or bytes: a   *)
(* token is a list of entries that only grows at its end, until it is sealed. *)
(* An entry says what its author was asked to write, for ever; it has an      *)
(* identifier of its own, the revocation identifier; and the entry of a third *)
(* party is only accepted after the very entries it was offered for.          *)
EXTENDS Naturals, Sequences, SequencesExt

CONSTANTS
    Services,   \* the third parties
    Holder      \* the author of entries that are not signed by a third party

VARIABLES
    tokens,     \* [root, entries, sealed]
    offers,     \* entries of third parties: [after, author, content]
    call,       \* the last operation: its name and what it was given
    answer      \* what it answered

vars == <<tokens, offers, call, answer>>

Identifiers == UNION {{t.entries[i].id : i \in DOMAIN t.entries} : t \in tokens}

\* The token n has one entry more than the list: what the author was asked for.
AddedBy(n, list, author) ==
    /\ ~n.sealed
    /\ n.entries # << >>
    /\ Front(n.entries) = list
    /\ Last(n.entries).author = author
    /\ Last(n.entries).content = call'.content
    /\ Last(n.entries).id \notin Identifiers

Adds(root, list, author) ==
    /\ answer' = "ok"
    /\ \E n \in tokens' : /\ AddedBy(n, list, author)
                          /\ n.root = root
                          /\ tokens' = tokens \cup {n}

Refuses(error) == /\ answer' = error
                  /\ UNCHANGED tokens

Init ==
    /\ tokens = {}
    /\ offers = {}
    /\ answer = "none"

Mint ==
    /\ call'.op = "mint"
    /\ \E n \in tokens' : Adds(n.root, << >>, Holder)
    /\ UNCHANGED offers

Extend ==
    /\ call'.op = "append"
    /\ \E t \in tokens :
          IF t.sealed THEN Refuses("already_sealed")
                      ELSE Adds(t.root, t.entries, Holder)
    /\ UNCHANGED offers

Seal ==
    /\ call'.op = "seal"
    /\ \E t \in tokens :
          IF t.sealed
          THEN Refuses("already_sealed")
          ELSE /\ answer' = "ok"
               /\ tokens' = tokens \cup {[t EXCEPT !.sealed = TRUE]}
    /\ UNCHANGED offers

Request ==
    /\ call'.op = "request"
    /\ \E t \in tokens :
          answer' = IF t.sealed THEN "append_on_sealed" ELSE "ok"
    /\ UNCHANGED <<tokens, offers>>

Offer ==
    /\ call'.op = "create_block"
    /\ answer' = "ok"
    /\ \E t \in tokens, s \in Services :
          offers' = offers \cup {[after |-> t.entries, author |-> s,
                                 content |-> call'.content]}
    /\ UNCHANGED tokens

\* An offer is refused for another history, or when someone else was expected.
Accept ==
    /\ call'.op = "append_third_party"
    /\ \E t \in tokens, o \in offers :
          /\ call'.content = o.content
          /\ IF o.author # call'.expected
             THEN Refuses("unexpected_key")
             ELSE IF o.after # t.entries
             THEN Refuses("invalid_signature")
             ELSE IF t.sealed
             THEN Refuses("already_sealed")
             ELSE Adds(t.root, t.entries, o.author)
    /\ UNCHANGED offers

\* Reading a token back from its bytes succeeds and changes nothing.
Read ==
    /\ call'.op = "from"
    /\ answer' = "ok"
    /\ UNCHANGED <<tokens, offers>>

Next == Mint \/ Extend \/ Seal \/ Request \/ Offer \/ Accept \/ Read

Spec == Init /\ [][Next]_vars
==============================================================================
