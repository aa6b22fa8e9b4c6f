------------------------------ MODULE MCLogin ------------------------------
(* Instances of Login for TLC: names as they are, and names that change.   *)
EXTENDS Login, TLC

MCNames == {"ann", "bob"}
MCThreeNames == MCNames \cup {"cid"}
MCPasswords == {"p", "q"}
MCRow(k, n, p) == [key |-> k, name |-> n, password |-> p]

(* No account, one, two of different names, two of the same name.          *)
MCTables ==
  {{}, {MCRow(1, "ann", "p")}, {MCRow(1, "ann", "q")},
   {MCRow(1, "ann", "p"), MCRow(2, "bob", "q")},
   {MCRow(1, "ann", "p"), MCRow(2, "ann", "p")}}

MCIdentity == [n \in MCNames |-> n]

(* One name is replaced by another, one by nothing, one stays.             *)
MCRenaming == "ann" :> "bob" @@ "bob" :> Blank @@ "cid" :> "cid"
MCThreeTables == MCTables \cup
  {{MCRow(1, "bob", "p"), MCRow(2, "bob", "p")}, {MCRow(1, "bob", "q"), MCRow(2, "cid", "p")}}

MCStock == {<<"bob", "p">>}
MCNoStock == {}
=============================================================================
