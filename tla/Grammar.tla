------------------------------- MODULE Grammar -------------------------------
(* Parser combinators: how the functions of the nom crate that                *)
(* biscuit-parser/src/parser.rs is built from read a text. A text is a        *)
(* sequence of tokens and white space is left out. A parser is a value:       *)
(*    tag: this token            kind: a token of one of these kinds          *)
(*    one: one of these tokens   eof: nothing is left                         *)
(*    seq: one after the other   alt: the first that succeeds                 *)
(*    many: as often as it succeeds                                           *)
(*    list: items with a separator between them, none or at least one         *)
(*    cut: an error is final     try: nothing is read when it does not succeed *)
(*    chain: a lead, then the rest, which must succeed, as often as the lead  *)
(*       is there                                                             *)
(*    either: the second when the first does not succeed, even for good       *)
(*    infix: operands with operators between them, in levels                  *)
(*    rule: a parser by its name                                              *)
(* A run answers "ok" with a value and the tokens that are left, "error" when *)
(* another alternative may be tried, or "failure" when none may (nom::Err).   *)
EXTENDS Sequences, Naturals

Sym(s) == <<"sym", s>>
Tag(s) == <<"tag", Sym(s)>>
Kind(kinds) == <<"kind", kinds>>
Concat(parsers) == <<"seq", parsers>>
Alt(parsers) == <<"alt", parsers>>
Many0(parser) == <<"many", parser>>
List0(separator, item) == <<"list", separator, item, FALSE>>
List1(separator, item) == <<"list", separator, item, TRUE>>
Cut(parser) == <<"cut", parser>>
Try(parser) == <<"try", parser>>
Chain(lead, rest) == <<"chain", lead, rest>>
Either(first, second) == <<"either", first, second>>
Infix(levels, operand) == <<"infix", levels, operand>>
Rule(name) == <<"rule", name>>

Ok(value, left) == [is |-> "ok", value |-> value, left |-> left]
Err(status) == [is |-> status, value |-> << >>, left |-> << >>]
==============================================================================
