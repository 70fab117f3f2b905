---------------------------- MODULE SymbolTables -----------------------------
(* How the names written in a block are replaced by indices, and read back:   *)
(* SymbolTable of biscuit-auth/src/datalog/symbol.rs and PublicKeys of        *)
(* token/public_keys.rs. A table is a sequence of names. Words and public     *)
(* keys have a table each. The default symbols, whose indices never change,   *)
(* are left out.                                                              *)
EXTENDS Naturals, Sequences, SequencesExt

CONSTANT Unknown    \* what an index outside of the table reads as

\* SymbolTable::is_disjoint, PublicKeys::is_disjoint
Disjoint(table, other) == Range(table) \cap Range(other) = {}

\* The names that insert adds to a table: each one the first time it is used, in
\* that order, unless it was there.
New(table, names) ==
    FlattenSeq([i \in DOMAIN names |->
        IF names[i] \in Range(table) \cup {names[j] : j \in 1..(i - 1)}
        THEN << >> ELSE <<names[i]>>])

\* What BlockBuilder::build converts names to: their positions in the table of
\* the token, followed by the names the block introduces.
Write(table, names) ==
    LET all == table \o New(table, names)
    IN  [i \in DOMAIN names |-> CHOOSE p \in DOMAIN all : all[p] = names[i]]

\* get_symbol, get_key
Read(table, indices) ==
    [i \in DOMAIN indices |->
        IF indices[i] \in DOMAIN table THEN table[indices[i]] ELSE Unknown]

\* BlockBuilder::build for a token whose tables are symbols and keys. modern
\* says whether the content needs a schema version of DATALOG_3_3 or more.
Build(content, symbols, keys) ==
    [symbols |-> New(symbols, content.words), words |-> Write(symbols, content.words),
     keys |-> New(keys, content.scopes), scopes |-> Write(keys, content.scopes),
     modern |-> content.modern]

\* The content a block stands for under the given tables.
Meaning(data, symbols, keys) ==
    [words |-> Read(symbols, data.words), scopes |-> Read(keys, data.scopes),
     modern |-> data.modern]
==============================================================================
