----------------------------- MODULE MCRealmDisks -----------------------------
(* Instances of RealmDisks: clients, calls and uuids are alike. *)
EXTENDS RealmDisks, TLC

\* With 4 for 2^64: two sizes, and one whose bytes wrap to 0.
AskedSizes == {[main |-> mb, secure |-> 1] : mb \in {1, 2, 4}}

OptionChoices == {<<>>, <<"allow_discards">>}

Alike == Permutations(Client) \cup Permutations(Call) \cup Permutations(Uuid)
=============================================================================
