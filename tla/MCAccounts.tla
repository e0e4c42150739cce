------------------------------ MODULE MCAccounts ------------------------------
(* Accounts and Names in one run: they share no variable, so a behaviour      *)
(* moves one of them and the states are the sum of theirs.                    *)
EXTENDS Accounts, Names, TLC

VARIABLE part

accountsVars == <<vars, namesVars, part>>

\* Two spellings of one look, and another name.
Spelt == {[looks |-> 1, lower |-> 1], [looks |-> 1, lower |-> 2], [looks |-> 2, lower |-> 3]}

\* People and requests are interchangeable.
Symmetric == Permutations(People) \union Permutations(Requests)

AccountsInit ==
    /\ Init /\ NamesInit
    /\ \/ part = "accounts"
       \/ part = "names" /\ users = [p \in People |-> Nobody]

AccountsNext ==
    \/ part = "accounts" /\ Next /\ UNCHANGED <<namesVars, part>>
    \/ part = "names" /\ NamesNext /\ UNCHANGED <<vars, part>>

AccountsSpec == AccountsInit /\ [][AccountsNext]_accountsVars

-------------------------------------------------------------------------------

\* Joining: an invite makes one account, and names and addresses stay apart.
JoiningIsSafe == AnInviteServesOnce /\ NamesStayApart
===============================================================================
