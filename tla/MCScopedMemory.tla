--------------------------- MODULE MCScopedMemory ---------------------------
(***************************************************************************)
(* Small instances of ScopedMemory for TLC.                                *)
(***************************************************************************)
EXTENDS ScopedMemory, TLC

CONSTANTS c1, u1, u2, a1, b1, k1, k2, x, y, f1, s1

\* Every conversation belongs to the first user.
MCOwner == [c \in Conversations |-> u1]
\* Two companies, each of a workspace of its own.
MCWorkspace == [k \in Companies |-> IF k = a1 THEN "first" ELSE "second"]
\* The first user works in both workspaces, the second one in one department of one.
MCGrants ==
  [u \in Users |-> {area \in Companies \X Departments :
     \/ area = <<a1, "finance">>
     \/ u = u1 /\ area[2] = "shared"}]
MCCompany == [c \in Chunks |-> IF c = s1 THEN b1 ELSE a1]
MCDepartment == [c \in Chunks |-> IF c = f1 THEN "finance" ELSE "shared"]

\* A preference stated, and another one inferred.
MCInferred == {[key |-> k1, content |-> x, explicit |-> TRUE],
               [key |-> k1, content |-> y, explicit |-> FALSE]}
\* Two preferences that change, one of them also inferred.
MCTwoKeys == [key : {k1, k2}, content : {x, y}, explicit : {TRUE}]
             \cup {[key |-> k1, content |-> y, explicit |-> FALSE]}

MCStated(k) == PrivateRow(u1, a1, "SEMANTIC", "ACTIVE", k, x, c1)
MCNone == <<>>
MCTwo == <<MCStated(k1), MCStated(k2)>>

MCCites == {{f1}, {f1, s1}}
MCManual == {{f1}, {f1, s1}}

MCSymmetry == Permutations(Turns) \cup Permutations(Requests)
=============================================================================
