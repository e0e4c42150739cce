--------------------------------- MODULE Names ---------------------------------
(***************************************************************************)
(* Display names and email addresses (services/accounts.py,                *)
(* domain/accounts.py).  A request looks for one that is taken, by what    *)
(* the name looks like, and saves its own some time later (after the       *)
(* password is hashed, or at its commit): the database refuses the same    *)
(* name or address then, in whatever case, but knows nothing of looks.     *)
(***************************************************************************)
EXTENDS Naturals, FiniteSets

CONSTANTS
    Persons,
    Forms,          \* the requests at the same time
    DisplayNames,   \* the clean names, each with what it looks like and its lower case
    Emails,         \* the clean addresses
    NoPerson

VARIABLES
    person,     \* display_name and email of each row
    form,       \* what each request has checked
    together    \* history: the pairs that took their names at the same time

namesVars == <<person, form, together>>

ASSUME NamesAssumption ==
    /\ \A n \in DisplayNames : {"looks", "lower"} \subseteq DOMAIN n
    /\ \A m, n \in DisplayNames : m.lower = n.lower => m.looks = n.looks

NoForm == [step |-> "none"]
Rows == {p \in Persons : person[p] # NoPerson}

NamesInit ==
    /\ person = [p \in Persons |-> NoPerson]
    /\ form = [f \in Forms |-> NoForm]
    /\ together = {}

\* _name_taken: by anyone else's that looks the same.
NameTaken(name, exclude) == \E p \in Rows \ exclude : person[p].name.looks = name.looks

\* _email_taken.
EmailTaken(email) == \E p \in Rows : person[p].email = email

\* A slip: only addresses are unique.
ClashesByEmail(p, new) == \E q \in Rows \ {p} : person[q].email = new.email

\* The unique indexes, on lower(display_name) and on email.
Clashes(p, new) ==
    \E q \in Rows \ {p} : person[q].name.lower = new.name.lower \/ person[q].email = new.email

Fill(f, next) == form[f] = NoForm /\ form' = [form EXCEPT ![f] = next]

\* _check_new_user, at a registration or for the first admin.
CheckNewUser(f, p, name, email) ==
    /\ p \notin Rows /\ ~EmailTaken(email) /\ ~NameTaken(name, {})
    /\ Fill(f, [step |-> "new", who |-> p, name |-> name, email |-> email, beside |-> {}])
    /\ UNCHANGED <<person, together>>

\* update_profile.
CheckName(f, p, name) ==
    /\ p \in Rows /\ ~NameTaken(name, {p})
    /\ Fill(f, [step |-> "name", who |-> p, name |-> name, beside |-> {}])
    /\ UNCHANGED <<person, together>>

\* _set_email.
CheckEmail(f, p, email) ==
    /\ p \in Rows /\ email # person[p].email /\ ~EmailTaken(email)
    /\ Fill(f, [step |-> "email", who |-> p, email |-> email])
    /\ UNCHANGED <<person, together>>

\* What a request would make of the row, if it is still there.
Filled(f) ==
    CASE form[f].step = "new"   -> [name |-> form[f].name, email |-> form[f].email]
      [] form[f].step = "name"  -> [person[form[f].who] EXCEPT !.name = form[f].name]
      [] form[f].step = "email" -> [person[form[f].who] EXCEPT !.email = form[f].email]

Saves(f) == form[f] # NoForm /\ (form[f].step = "new" <=> form[f].who \notin Rows)

\* History: a name that is saved is new to every other name that was checked before and is saved after.
Noticed(f) ==
    [g \in Forms |->
        IF g = f THEN NoForm
        ELSE IF form[f].step # "email" /\ form[g].step \in {"new", "name"}
          THEN [form[g] EXCEPT !.beside = @ \union {form[f].who}]
        ELSE form[g]]

\* _unique: saved, or refused when the database finds a clash.
Save(f) ==
    LET p == form[f].who
    IN /\ Saves(f) /\ ~Clashes(p, Filled(f))
       /\ person' = [person EXCEPT ![p] = Filled(f)]
       /\ form' = Noticed(f)
       /\ together' = IF form[f].step = "email" THEN together
                      ELSE {t \in together : p \notin t} \union {{p, q} : q \in form[f].beside}

Refuse(f) ==
    /\ form[f] # NoForm /\ (Saves(f) => Clashes(form[f].who, Filled(f)))
    /\ form' = [form EXCEPT ![f] = NoForm]
    /\ UNCHANGED <<person, together>>

\* A deleted account frees its name and its address.
Free(p) ==
    /\ p \in Rows
    /\ person' = [person EXCEPT ![p] = NoPerson]
    /\ together' = {t \in together : p \notin t}
    /\ form' = [f \in Forms |-> IF form[f].step \in {"new", "name"} THEN [form[f] EXCEPT !.beside = @ \ {p}]
                               ELSE form[f]]

NamesNext ==
    \/ \E f \in Forms :
          \/ Save(f) \/ Refuse(f)
          \/ \E p \in Persons :
                \/ \E n \in DisplayNames, e \in Emails : CheckNewUser(f, p, n, e)
                \/ \E n \in DisplayNames : CheckName(f, p, n)
                \/ \E e \in Emails : CheckEmail(f, p, e)
    \/ \E p \in Persons : Free(p)

NamesSpec == NamesInit /\ [][NamesNext]_namesVars

-------------------------------------------------------------------------------
(* Properties                                                              *)

\* No two accounts have one name (in whatever case) or one address, and two names that look alike are only
\* ever of people who took them at the same moment, each before the other's was there.
NamesStayApart ==
    \A p, q \in Rows : p # q =>
        /\ person[p].name.lower # person[q].name.lower /\ person[p].email # person[q].email
        /\ person[p].name.looks = person[q].name.looks => {p, q} \in together
===============================================================================
