------------------------------- MODULE Tables -------------------------------
(***************************************************************************)
(* The keyed stores of src/src/rns/tables/: PathTable, ReverseTable,       *)
(* LinkTable, AnnounceTable and the _known_destinations map are all an     *)
(* std::unordered_map from the hex of a hash to an entry.  A table is a    *)
(* function whose domain is the set of keys present; a lookup that         *)
(* returns nullptr is a key outside the domain.                            *)
(***************************************************************************)

\* `_entries[k] = std::move(entry)`: inserts, or replaces the whole entry.
Put(table, k, entry) ==
  [x \in DOMAIN table \cup {k} |-> IF x = k THEN entry ELSE table[x]]

\* `_entries.erase(it)` for every key of `gone`; absent keys are ignored.
Without(table, gone) == [x \in DOMAIN table \ gone |-> table[x]]

\* A table holding nothing.
EmptyTable == [x \in {} |-> x]

\* The tables whose keys are in Keys and whose entries are in Entries.
IsTable(table, Keys, Entries) ==
  /\ DOMAIN table \subseteq Keys
  /\ table = [x \in DOMAIN table |-> table[x]]
  /\ \A x \in DOMAIN table : table[x] \in Entries
=============================================================================
