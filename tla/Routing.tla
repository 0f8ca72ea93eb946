------------------------------- MODULE Routing --------------------------------
(***************************************************************************)
(* Which Queries crates.io is asked about, and with which term             *)
(* (src/src/web/search/cratesio.rs, web/crates_io.rs).  A Query is a       *)
(* sequence of tokens, trimmed of punctuation: the word in lower case and  *)
(* without a possessive, the root of the Rust path it is ("" for none),    *)
(* and whether it is a crate name, in lower case, joined by "-" or "_",    *)
(* alone between backticks.                                                *)
(***************************************************************************)
EXTENDS Integers, SequencesExt

CONSTANTS
  CrateKeywords, Fillers,
  BuiltinRoots      \* the roots of paths that are no crate

is_keyword(t) == t.word \in CrateKeywords
is_filler(t) == t.word \in Fillers
Words(tokens) == [i \in DOMAIN tokens |-> tokens[i].word]

(* What names a crate, in the order the rules are tried: a span between    *)
(* backticks, the root of a path, a word next to "crate", a lone word that *)
(* is joined.                                                              *)
Ticked(tokens) == Words(SelectSeq(tokens, LAMBDA t : t.ticked /\ t.named /\ t.lower))
Roots(tokens) ==
  LET paths == SelectSeq(tokens, LAMBDA t : t.root \notin {""} \cup BuiltinRoots)
  IN  [i \in DOMAIN paths |-> paths[i].root]
Beside(tokens) ==
  LET Names(j) == j \in DOMAIN tokens /\ tokens[j].named
                    /\ ~is_keyword(tokens[j]) /\ ~is_filler(tokens[j])
      Around(i) == IF tokens[i].word \in {"crate", "crates"}
                   THEN SelectSeq(<<i - 1, i + 1>>, Names) ELSE <<>>
      places == FlattenSeq([i \in DOMAIN tokens |-> Around(i)])
  IN  [i \in DOMAIN places |-> tokens[places[i]].word]
Alone(tokens) ==
  Words(SelectSeq(tokens, LAMBDA t : Len(tokens) = 1 /\ t.named /\ t.joined /\ t.lower))

Named(tokens) == Ticked(tokens) \o Roots(tokens) \o Beside(tokens) \o Alone(tokens)

(* The rest of a Query about Rust, if no crate is named and no path is in  *)
(* it.                                                                     *)
Rest(tokens) ==
  IF (\E i \in DOMAIN tokens : tokens[i].root # "")
       \/ ~\E i \in DOMAIN tokens : is_keyword(tokens[i])
  THEN <<>>
  ELSE Words(SelectSeq(tokens, LAMBDA t : ~is_keyword(t) /\ ~is_filler(t)))

(* A route is a term, in words, and whether it names one crate; no route   *)
(* has no word.                                                            *)
route(tokens) ==
  IF Named(tokens) # <<>> THEN [term |-> <<Named(tokens)[1]>>, exact |-> TRUE]
  ELSE [term |-> Rest(tokens), exact |-> FALSE]
=============================================================================
