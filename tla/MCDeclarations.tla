--------------------------- MODULE MCDeclarations ---------------------------
(***************************************************************************)
(* Five kinds of files: hierarchies of types, names declared twice or by   *)
(* their use, quantifiers in actions and goals, fluents, and rewards.      *)
(***************************************************************************)
EXTENDS Declarations

Nothing == [s \in ToSet(Sections) |-> 0]
Blank ==
  [types |-> {}, requirements |-> {}, names |-> {}, predicates |-> {}, functions |-> {}, actions |-> {"a"},
   quantifiers |-> {}, binders |-> {<<>>}, heads |-> {"p"}, terms |-> {<<>>}, equal |-> {}, fluents |-> {}, weights |-> {},
   known |-> {TRUE}, goalRewards |-> {FALSE}, most |-> Nothing]

Hierarchies ==
  [Blank EXCEPT !.types = {<<s, {u}>> : s \in {"t", "u", "v", "w"}, u \in {"t", "u", "v", "w"}}
                            \cup {<<"t", {OBJECT}>>, <<"u", {"v", "w"}>>, <<OBJECT, {"t"}>>, <<"v", {}>>},
                !.most = [Nothing EXCEPT !["types"] = 4]]

Uses ==
  [Blank EXCEPT !.types = {<<"t", {"u"}>>},
                !.names = {<<"c", {"t"}>>, <<"c", {"u"}>>, <<"c", {"v"}>>, <<"d", {OBJECT}>>, <<"d", {"u", "v"}>>},
                !.predicates = {<<"p", <<{"u"}>>>>, <<"p", <<>>>>, <<"p", <<{}>>>>},
                !.heads = {"p", "q"}, !.terms = {<<>>, <<"c">>, <<"d">>, <<"e", "c">>},
                !.known = BOOLEAN,
                !.most = [Nothing EXCEPT !["types"] = 1, !["constants"] = 2, !["predicates"] = 2,
                                         !["actions"] = 2, !["objects"] = 1, !["init"] = 2]]

Quantifiers ==
  [Blank EXCEPT !.quantifiers = {"existential-preconditions", "conditional-effects"},
                !.binders = {<<>>, <<<<"?x", {"t"}>>>>, <<<<"?y", {OBJECT}>>, <<"?x", {"t", "u"}>>>>,
                             <<<<"?x", {"t"}>>, <<"?x", {"t"}>>>>},
                !.terms = {<<"?x">>, <<"?y", "?x">>},
                !.most = [Nothing EXCEPT !["actions"] = 4, !["goal"] = 2]]

Fluents ==
  [Blank EXCEPT !.quantifiers = {"universal-preconditions"}, !.binders = {<<<<"?x", {"t"}>>, <<"?y", {"u"}>>>>},
                !.actions = {"a", "b"}, !.terms = {<<"?x">>},
                !.equal = {<<"?x", "?y">>, <<"?x", "c">>, <<"f", "c">>, <<"f", "f">>},
                !.functions = {<<"f", <<>>>>, <<"f", <<{"t"}>>>>},
                !.weights = {<<2, 2>>, <<3, 2>>, <<5>>}, !.fluents = {"f", "total-time"},
                !.most = [Nothing EXCEPT !["functions"] = 1, !["actions"] = 3, !["init"] = 1, !["goal"] = 1]]

Rewards ==
  [Blank EXCEPT !.requirements = {"rewards", "mdp", "probabilistic-effects", "adl"},
                !.fluents = {"reward", "f"}, !.equal = {<<"reward", "f">>}, !.goalRewards = BOOLEAN,
                !.most = [Nothing EXCEPT !["requirements"] = 1, !["actions"] = 3, !["more requirements"] = 1,
                                         !["init"] = 1, !["goal"] = 1]]

MCTexts == {Hierarchies, Uses, Quantifiers, Fluents, Rewards}
=============================================================================
