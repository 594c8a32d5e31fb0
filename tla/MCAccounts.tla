---------------------------- MODULE MCAccounts -----------------------------
(***************************************************************************)
(* Instances of Accounts: a fresh install, and a server whose main admin   *)
(* has appointed a second one.                                             *)
(***************************************************************************)
EXTENDS Accounts, TLC

CONSTANTS u1, u2, u3, main, n1, n2, g1, g2

Admin(n) == [name |-> n, role |-> "admin", active |-> TRUE]
User(n) == [name |-> n, role |-> "user", active |-> TRUE]

MCInitialUsers == {[u \in Users |-> Unborn],
                   (u1 :> Admin(main)) @@ (u2 :> Admin(n1)) @@ (u3 :> Unborn)}

\* Two admins of a server without the main account.
MCTwoAdmins == {(u1 :> Admin(n1)) @@ (u2 :> Admin(n2)) @@ (u3 :> Unborn)}

Sign(g, n) == [kind |-> "register", gw |-> g, name |-> n]
Create(row) == [kind |-> "create", row |-> row]
Change(u, n, role, active) ==
    [kind |-> "update", user |-> u, patch |-> [name |-> n, role |-> role, active |-> active]]
Delete(u) == [kind |-> "delete", user |-> u]
Policy(m, o, d) ==
    [kind |-> "runtime", patch |-> [maintenance |-> m, open |-> o, defaultRole |-> d]]
Prewarm(t, h) == [kind |-> "media", patch |-> [pretranscode |-> t, prehls |-> h]]

\* Registrations through two gateways, promotions, demotions, renamings to and
\* from the main admin's name, deletions, and changes of settings.
MCJobs ==
    {Sign(g1, n1), Sign(g1, n2), Sign(g2, n2), Create(Admin(n2)),
     Change(u1, Keep, "user", Keep), Change(u1, n2, Keep, Keep),
     Change(u2, Keep, "user", FALSE), Change(u2, main, Keep, Keep),
     Change(u2, Keep, "admin", TRUE),
     Delete(u1), Delete(u2),
     Policy(Keep, FALSE, Keep), Policy(TRUE, Keep, "admin"), Prewarm(FALSE, Keep)}

MCDemotions == {Change(u1, Keep, "user", Keep), Change(u2, Keep, Keep, FALSE), Delete(u1), Delete(u2)}

Symmetry == Permutations(Requests)
=============================================================================
