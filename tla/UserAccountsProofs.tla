------------------------- MODULE UserAccountsProofs -------------------------
(***************************************************************************)
(* The safety properties of UserAccounts, for any number of users,         *)
(* numbers and requests, from one inductive invariant.                     *)
(***************************************************************************)
EXTENDS UserAccounts, TLAPS

\* An identity leads to a row that exists.
IdentityExists ==
    \A o \in OpenIDs : identity[o] # NoUser => identity[o] \in Users /\ Exists(identity[o])

\* A locked row belongs to a completed profile.
LockedComplete == \A u \in verifying : Completed(row[u])

\* A row that is going to be saved carries the mark only with a number that
\* was confirmed for its user, however much later that is.
EditConfirmed ==
    \A e \in Edits : edit[e].at = "read" /\ edit[e].row.verified
        => <<edit[e].user, edit[e].row.number>> \in confirmed

IInv ==
    /\ TypeOK
    /\ OneAccount
    /\ IdentityExists
    /\ LockedComplete
    /\ EditConfirmed
    /\ VerifiedNumberUnique
    /\ VerifiedWasConfirmed
    /\ SessionsConfirmed

-----------------------------------------------------------------------------
(* Rows                                                                    *)

\* A row made by UpdateProfile keeps the mark only if the row it was made
\* from had it, with the same number (auth_service.go:213-240).
LEMMA EditedRow ==
    ASSUME NEW old \in Rows, NEW number \in Numbers \cup {old.number},
           NEW rename \in BOOLEAN
    PROVE  /\ Edited(old, number, rename) \in Rows
           /\ Edited(old, number, rename).verified =>
                  old.verified /\ Edited(old, number, rename).number = old.number
<1> DEFINE new == [old EXCEPT !.number = number, !.named = @ \/ rename]
<1>1. new \in Rows /\ new.number = number /\ new.verified = old.verified
  BY DEF Rows
<1>2. CASE IdentityChanged(old, new)
  <2>1. Edited(old, number, rename) = [new EXCEPT !.verified = FALSE]
    BY <1>2 DEF Edited
  <2>2. Edited(old, number, rename).verified = FALSE
    BY <2>1, <1>1 DEF Rows
  <2> QED  BY <2>1, <2>2, <1>1 DEF Rows
<1>3. CASE ~IdentityChanged(old, new)
  <2>1. Edited(old, number, rename) = new
    BY <1>3 DEF Edited
  <2>2. number = old.number
    BY <1>1, <1>3 DEF IdentityChanged
  <2> QED  BY <2>1, <2>2, <1>1
<1> QED  BY <1>2, <1>3

\* A new row, and one with a number, is not the mark of an absent row.
LEMMA RowExists ==
    ASSUME NEW r \in Rows, r.verified => r.number \in Numbers
    PROVE  r # Absent
BY AccountsAssumption DEF Rows, Absent

LEMMA NewUserRow == NewUser \in Rows /\ ~NewUser.verified /\ NewUser # Absent
BY DEF NewUser, Rows, Absent

-----------------------------------------------------------------------------
(* Initial states and steps                                                *)

LEMMA InitInvariant == Init => IInv
<1> SUFFICES ASSUME Init PROVE IInv
  OBVIOUS
<1> USE DEF Init
<1>1. \A u \in Users : ~Exists(u)
  BY DEF Exists
<1>2. TypeOK
  BY NewUserRow DEF TypeOK, Rows, Absent, NoFace
<1>3. \A f \in Faces : face[f].at = "none"
  BY DEF NoFace
<1> QED  BY <1>1, <1>2, <1>3, AccountsAssumption DEF IInv, OneAccount, IdentityExists, LockedComplete,
            EditConfirmed, VerifiedNumberUnique, VerifiedWasConfirmed,
            SessionsConfirmed

LEMMA BeginLoginStep ==
    ASSUME IInv, NEW l \in Logins, BeginLogin(l)
    PROVE  IInv'
<1> USE DEF IInv, BeginLogin, FindIdentity
<1>1. TypeOK'
  <2>1. identity[LoginOf[l]] \in Users \cup {NoUser}
    BY AccountsAssumption DEF TypeOK
  <2>2. login' \in [Logins -> [at: {"none", "new", "in", "failed"},
                             user: Users \cup {NoUser}]]
    BY <2>1 DEF TypeOK
  <2> QED  BY <2>2 DEF TypeOK, Exists
<1>2. OneAccount'
  <2>1. \A k \in Logins : login'[k].at = "in" =>
            login'[k].user = identity[LoginOf[k]] /\ login'[k].user # NoUser
    BY DEF TypeOK, OneAccount
  <2> QED  BY <2>1 DEF OneAccount, Exists
<1>3. /\ IdentityExists' /\ LockedComplete' /\ EditConfirmed'
      /\ VerifiedNumberUnique' /\ VerifiedWasConfirmed' /\ SessionsConfirmed'
  BY DEF IdentityExists, LockedComplete, EditConfirmed, VerifiedNumberUnique,
         VerifiedWasConfirmed, SessionsConfirmed, Exists
<1> QED  BY <1>1, <1>2, <1>3

LEMMA CreateWithIdentityStep ==
    ASSUME IInv, NEW l \in Logins, CreateWithIdentity(l)
    PROVE  IInv'
<1> DEFINE o == LoginOf[l]
<1> o \in OpenIDs
  BY AccountsAssumption
<1> USE DEF IInv
<1>1. CASE identity[o] = NoUser
  <2>1. PICK u \in Users :
            /\ ~Exists(u)
            /\ row' = [row EXCEPT ![u] = NewUser]
            /\ identity' = [identity EXCEPT ![o] = u]
            /\ login' = [login EXCEPT ![l] = [at |-> "in", user |-> u]]
    BY <1>1 DEF CreateWithIdentity, InsertWithIdentity
  <2>2. UNCHANGED <<edit, verifying, confirmed, face>> /\ login[l].at = "new"
    BY DEF CreateWithIdentity
  <2>3. u # NoUser
    BY AccountsAssumption
  <2>4. \A v \in Users : row'[v] = IF v = u THEN NewUser ELSE row[v]
    BY <2>1 DEF TypeOK
  <2>5. \A v \in Users : Exists(v)' <=> (v = u \/ Exists(v))
    BY <2>4, NewUserRow DEF Exists
  <2>6. \A p \in OpenIDs : identity'[p] = IF p = o THEN u ELSE identity[p]
    BY <2>1 DEF TypeOK
  <2>7. \A k \in Logins : login'[k] = IF k = l THEN [at |-> "in", user |-> u] ELSE login[k]
    BY <2>1 DEF TypeOK
  <2>8. TypeOK'
    <3>1. row' \in [Users -> Rows] /\ identity' \in [OpenIDs -> Users \cup {NoUser}]
      BY <2>1, NewUserRow DEF TypeOK
    <3>2. login' \in [Logins -> [at: {"none", "new", "in", "failed"},
                               user: Users \cup {NoUser}]]
      BY <2>1 DEF TypeOK
    <3> QED  BY <3>1, <3>2, <2>2, <2>5 DEF TypeOK
  <2>9. OneAccount'
    <3>1. \A v \in Users : Exists(v)' => \E p \in OpenIDs : identity'[p] = v
      BY <1>1, <2>5, <2>6, AccountsAssumption DEF OneAccount
    <3>2. \A p, q \in OpenIDs : identity'[p] = identity'[q] /\ identity'[p] # NoUser => p = q
      BY <2>1, <2>6 DEF OneAccount, IdentityExists
    <3>3. \A k \in Logins : login'[k].at = "in" =>
              login'[k].user = identity'[LoginOf[k]] /\ login'[k].user # NoUser
      BY <1>1, <2>3, <2>6, <2>7, AccountsAssumption DEF OneAccount
    <3> QED  BY <3>1, <3>2, <3>3 DEF OneAccount
  <2>10. IdentityExists'
    BY <2>5, <2>6 DEF IdentityExists
  <2>11. LockedComplete'
    BY <2>1, <2>2, <2>4 DEF LockedComplete, TypeOK, Completed
  <2>12. EditConfirmed' /\ SessionsConfirmed'
    BY <2>2 DEF EditConfirmed, SessionsConfirmed
  <2>13. VerifiedNumberUnique'
    BY <2>4, <2>5, NewUserRow DEF VerifiedNumberUnique
  <2>14. VerifiedWasConfirmed'
    BY <2>2, <2>4, <2>5, NewUserRow DEF VerifiedWasConfirmed
  <2> QED  BY <2>8, <2>9, <2>10, <2>11, <2>12, <2>13, <2>14
<1>2. CASE identity[o] # NoUser
  <2>1. /\ login' = [login EXCEPT ![l].at = "failed"]
        /\ UNCHANGED <<row, identity, edit, verifying, confirmed, face>>
    BY <1>2 DEF CreateWithIdentity
  <2>2. TypeOK'
    BY <2>1 DEF TypeOK, Exists
  <2>3. OneAccount'
    <3>1. \A k \in Logins : login'[k].at = "in" => login'[k] = login[k]
      BY <2>1 DEF TypeOK
    <3> QED  BY <2>1, <3>1 DEF OneAccount, Exists
  <2>4. /\ IdentityExists' /\ LockedComplete' /\ EditConfirmed'
        /\ VerifiedNumberUnique' /\ VerifiedWasConfirmed' /\ SessionsConfirmed'
    BY <2>1 DEF IdentityExists, LockedComplete, EditConfirmed, VerifiedNumberUnique,
           VerifiedWasConfirmed, SessionsConfirmed, Exists
  <2> QED  BY <2>2, <2>3, <2>4
<1> QED  BY <1>1, <1>2

LEMMA ReadProfileStep ==
    ASSUME IInv, NEW e \in Edits, ReadProfile(e)
    PROVE  IInv'
<1> USE DEF IInv
<1>1. PICK l \in Logins, rename \in BOOLEAN :
          /\ login[l].at = "in"
          /\ \E number \in Numbers \cup {row[login[l].user].number} :
                 edit' = [edit EXCEPT ![e] =
                     [at |-> "read", user |-> login[l].user,
                      row |-> Edited(row[login[l].user], number, rename)]]
  BY DEF ReadProfile
<1> DEFINE u == login[l].user
<1>2. PICK number \in Numbers \cup {row[u].number} :
          edit' = [edit EXCEPT ![e] =
              [at |-> "read", user |-> u, row |-> Edited(row[u], number, rename)]]
  BY <1>1
<1>3. UNCHANGED <<row, identity, login, verifying, confirmed, face>>
  BY DEF ReadProfile
<1>4. u \in Users /\ Exists(u)
  BY <1>1, AccountsAssumption DEF OneAccount, IdentityExists
<1>5. row[u] \in Rows
  BY <1>4 DEF TypeOK
<1>6. /\ Edited(row[u], number, rename) \in Rows
      /\ Edited(row[u], number, rename).verified =>
             row[u].verified /\ Edited(row[u], number, rename).number = row[u].number
  BY <1>5, EditedRow
<1>7. \A d \in Edits : edit'[d] = IF d = e
          THEN [at |-> "read", user |-> u, row |-> Edited(row[u], number, rename)]
          ELSE edit[d]
  BY <1>2 DEF TypeOK
<1>8. TypeOK'
  <2>1. edit' \in [Edits -> [at: {"none", "read", "done"}, user: Users \cup {NoUser}, row: Rows]]
    BY <1>2, <1>4, <1>6 DEF TypeOK
  <2>2. \A d \in Edits : edit'[d].at = "read" => edit'[d].user \in Users /\ Exists(edit'[d].user)
    BY <1>4, <1>7 DEF TypeOK
  <2> QED  BY <1>3, <2>1, <2>2 DEF TypeOK, Exists
<1>9. EditConfirmed'
  <2>1. row[u].verified => <<u, row[u].number>> \in confirmed
    BY <1>4 DEF VerifiedWasConfirmed
  <2>2. \A d \in Edits : edit'[d].at = "read" /\ edit'[d].row.verified
            => <<edit'[d].user, edit'[d].row.number>> \in confirmed
    BY <1>6, <1>7, <2>1 DEF EditConfirmed
  <2> QED  BY <1>3, <2>2 DEF EditConfirmed
<1>10. /\ OneAccount' /\ IdentityExists' /\ LockedComplete'
       /\ VerifiedNumberUnique' /\ VerifiedWasConfirmed' /\ SessionsConfirmed'
  BY <1>3 DEF OneAccount, IdentityExists, LockedComplete, VerifiedNumberUnique,
              VerifiedWasConfirmed, SessionsConfirmed, Exists
<1> QED  BY <1>8, <1>9, <1>10

LEMMA SaveProfileStep ==
    ASSUME IInv, NEW e \in Edits, SaveProfile(e)
    PROVE  IInv'
<1> DEFINE u == edit[e].user
           new == edit[e].row
<1> USE DEF IInv
<1>1. UNCHANGED <<identity, login, verifying, confirmed, face>>
  BY DEF SaveProfile
<1>2. /\ edit[e].at = "read" /\ u \notin verifying
      /\ row' = [row EXCEPT ![u] = IF new.verified /\ Taken(u, new.number) THEN @ ELSE new]
      /\ edit' = [edit EXCEPT ![e] = [at |-> "done", user |-> NoUser, row |-> NewUser]]
  BY DEF SaveProfile
<1>3. u \in Users /\ Exists(u) /\ new \in Rows
  BY <1>2 DEF TypeOK
<1>4. new.verified => <<u, new.number>> \in confirmed
  BY <1>2 DEF EditConfirmed
<1>5. new # Absent
  <2>1. new.verified => new.number \in Numbers
    BY <1>4 DEF TypeOK
  <2> QED  BY <1>3, <2>1, RowExists
<1>6. \A v \in Users : row'[v] = IF v = u /\ ~(new.verified /\ Taken(u, new.number))
                               THEN new ELSE row[v]
  BY <1>2 DEF TypeOK
<1>7. \A v \in Users : Exists(v)' <=> Exists(v)
  BY <1>3, <1>5, <1>6 DEF Exists
<1>8. \A d \in Edits : edit'[d] = IF d = e THEN [at |-> "done", user |-> NoUser, row |-> NewUser]
                                ELSE edit[d]
  BY <1>2 DEF TypeOK
<1>9. TypeOK'
  <2>1. row' \in [Users -> Rows]
    BY <1>2, <1>3 DEF TypeOK
  <2>2. edit' \in [Edits -> [at: {"none", "read", "done"}, user: Users \cup {NoUser}, row: Rows]]
    BY <1>2, NewUserRow DEF TypeOK
  <2>3. \A d \in Edits : edit'[d].at = "read" => edit'[d].user \in Users /\ row'[edit'[d].user] # Absent
    BY <1>7, <1>8 DEF TypeOK, Exists
  <2>4. \A v \in verifying : v \in Users /\ row'[v] # Absent
    BY <1>7 DEF TypeOK, Exists
  <2> QED  BY <1>1, <2>1, <2>2, <2>3, <2>4 DEF TypeOK, Exists
<1>10. OneAccount' /\ IdentityExists'
  BY <1>1, <1>7 DEF OneAccount, IdentityExists
<1>11. LockedComplete'
  BY <1>1, <1>2, <1>6 DEF LockedComplete, TypeOK, Completed
<1>12. EditConfirmed'
  BY <1>1, <1>8 DEF EditConfirmed
<1>13. VerifiedNumberUnique'
  <2>1. CASE new.verified /\ Taken(u, new.number)
    <3>1. \A v \in Users : row'[v] = row[v]
      BY <2>1, <1>6
    <3> QED  BY <3>1, <1>7 DEF VerifiedNumberUnique
  <2>2. CASE ~(new.verified /\ Taken(u, new.number))
    <3>1. row'[u] = new /\ \A v \in Users \ {u} : row'[v] = row[v]
      BY <2>2, <1>3, <1>6
    <3>2. new.verified =>
              \A v \in Users \ {u} : ~(Exists(v) /\ row[v].verified /\ row[v].number = new.number)
      BY <2>2 DEF Taken
    <3> QED  BY <3>1, <3>2, <1>7 DEF VerifiedNumberUnique
  <2> QED  BY <2>1, <2>2
<1>14. VerifiedWasConfirmed'
  BY <1>1, <1>4, <1>6, <1>7 DEF VerifiedWasConfirmed
<1>15. SessionsConfirmed'
  BY <1>1 DEF SessionsConfirmed
<1> QED  BY <1>9, <1>10, <1>11, <1>12, <1>13, <1>14, <1>15

LEMMA BeginVerifyStep ==
    ASSUME IInv, NEW u \in Users, BeginVerify(u)
    PROVE  IInv'
<1> USE DEF IInv, BeginVerify
<1>1. TypeOK'
  BY DEF TypeOK, Exists
<1>2. LockedComplete'
  BY DEF LockedComplete, Completed
<1>3. /\ OneAccount' /\ IdentityExists' /\ EditConfirmed'
      /\ VerifiedNumberUnique' /\ VerifiedWasConfirmed' /\ SessionsConfirmed'
  BY DEF OneAccount, IdentityExists, EditConfirmed, VerifiedNumberUnique,
         VerifiedWasConfirmed, SessionsConfirmed, Exists
<1> QED  BY <1>1, <1>2, <1>3

LEMMA CommitVerifyStep ==
    ASSUME IInv, NEW u \in Users, CommitVerify(u)
    PROVE  IInv'
<1> USE DEF IInv
<1>1. /\ u \in verifying /\ verifying' = verifying \ {u}
      /\ UNCHANGED <<identity, login, edit, face>>
  BY DEF CommitVerify
<1>2. CASE Taken(u, row[u].number)
  <2>1. UNCHANGED <<row, confirmed>>
    BY <1>2 DEF CommitVerify
  <2>2. TypeOK' /\ LockedComplete'
    BY <1>1, <2>1 DEF TypeOK, LockedComplete, Completed, Exists
  <2>3. /\ OneAccount' /\ IdentityExists' /\ EditConfirmed'
        /\ VerifiedNumberUnique' /\ VerifiedWasConfirmed' /\ SessionsConfirmed'
    BY <1>1, <2>1 DEF OneAccount, IdentityExists, EditConfirmed, VerifiedNumberUnique,
           VerifiedWasConfirmed, SessionsConfirmed, Exists
  <2> QED  BY <2>2, <2>3
<1>3. CASE ~Taken(u, row[u].number)
  <2>1. /\ row' = [row EXCEPT ![u].verified = TRUE]
        /\ confirmed' = confirmed \cup {<<u, row[u].number>>}
    BY <1>3 DEF CommitVerify
  <2>2. row[u] \in Rows /\ Exists(u)
    BY DEF TypeOK, CommitVerify
  <2>3. row[u].number \in Numbers
    BY <1>1, <2>2 DEF LockedComplete, Completed, Rows
  <2>4. /\ row'[u] \in Rows
        /\ row'[u].verified /\ row'[u].number = row[u].number /\ row'[u].named = row[u].named
    BY <2>1, <2>2 DEF TypeOK, Rows
  <2>5. \A v \in Users \ {u} : row'[v] = row[v]
    BY <2>1 DEF TypeOK
  <2>6. row'[u] # Absent
    BY <2>3, <2>4, RowExists
  <2>7. \A v \in Users : Exists(v)' <=> Exists(v)
    BY <2>2, <2>5, <2>6 DEF Exists
  <2>8. TypeOK'
    <3>1. row' \in [Users -> Rows]
      BY <2>1, <2>2 DEF TypeOK, Rows
    <3>2. confirmed' \subseteq Users \X Numbers
      BY <2>1, <2>3 DEF TypeOK
    <3>3. \A d \in Edits : edit[d].at = "read" => edit[d].user \in Users /\ row'[edit[d].user] # Absent
      BY <2>7 DEF TypeOK, Exists
    <3>4. \A v \in verifying : v \in Users /\ row'[v] # Absent
      BY <2>7 DEF TypeOK, Exists
    <3> QED  BY <1>1, <3>1, <3>2, <3>3, <3>4 DEF TypeOK, Exists
  <2>9. OneAccount' /\ IdentityExists'
    BY <1>1, <2>7 DEF OneAccount, IdentityExists
  <2>10. LockedComplete'
    BY <1>1, <2>5 DEF LockedComplete, Completed, TypeOK
  <2>11. EditConfirmed' /\ SessionsConfirmed'
    BY <1>1, <2>1 DEF EditConfirmed, SessionsConfirmed
  <2>12. VerifiedNumberUnique'
    <3>1. \A v \in Users \ {u} : ~(Exists(v) /\ row[v].verified /\ row[v].number = row[u].number)
      BY <1>3 DEF Taken
    <3> QED  BY <2>4, <2>5, <2>7, <3>1 DEF VerifiedNumberUnique
  <2>13. VerifiedWasConfirmed'
    BY <2>1, <2>4, <2>5, <2>7 DEF VerifiedWasConfirmed
  <2> QED  BY <2>8, <2>9, <2>10, <2>11, <2>12, <2>13
<1> QED  BY <1>2, <1>3

\* The answer of a face session: signed only for a verified row.
LEMMA AnswerStep ==
    ASSUME IInv, NEW f \in Faces, NEW shown \in Shown, NEW u \in Users,
           Exists(u), row[u].number = shown \/ u = shown,
           Answer(f, shown, u),
           UNCHANGED <<row, identity, login, edit, verifying, confirmed>>
    PROVE  IInv'
<1> USE DEF IInv
<1>1. \A g \in Faces \ {f} : face'[g] = face[g]
  BY DEF Answer, TypeOK
<1>2. TypeOK'
  <2>1. face' \in [Faces -> [at: {"none", "missed", "in", "refused"},
                            shown: Shown \cup {NoNumber}, user: Users \cup {NoUser}]]
    BY DEF Answer, TypeOK
  <2> QED  BY <2>1 DEF TypeOK, Exists
<1>3. SessionsConfirmed'
  <2>1. CASE row[u].verified
    <3>1. <<u, row[u].number>> \in confirmed /\ row[u].number \in Numbers
      BY <2>1 DEF VerifiedWasConfirmed, TypeOK
    <3>2. face'[f].shown = shown /\ face'[f].user = u
      BY <2>1 DEF Answer, TypeOK
    <3> QED  BY <1>1, <3>1, <3>2 DEF SessionsConfirmed
  <2>2. CASE ~row[u].verified
    <3>1. face'[f].at = "refused"
      BY <2>2 DEF Answer, TypeOK
    <3> QED  BY <1>1, <3>1 DEF SessionsConfirmed
  <2> QED  BY <2>1, <2>2
<1>4. /\ OneAccount' /\ IdentityExists' /\ LockedComplete' /\ EditConfirmed'
      /\ VerifiedNumberUnique' /\ VerifiedWasConfirmed'
  BY DEF OneAccount, IdentityExists, LockedComplete, EditConfirmed,
         VerifiedNumberUnique, VerifiedWasConfirmed, Exists
<1> QED  BY <1>2, <1>3, <1>4

\* A request that signs nothing leaves the sessions as they were.
LEMMA NoAnswerStep ==
    ASSUME IInv, NEW f \in Faces, NEW r \in [at: {"missed", "refused"},
               shown: Shown \cup {NoNumber}, user: Users \cup {NoUser}],
           face' = [face EXCEPT ![f] = r],
           UNCHANGED <<row, identity, login, edit, verifying, confirmed>>
    PROVE  IInv'
<1> USE DEF IInv
<1>1. \A g \in Faces : face'[g] = IF g = f THEN r ELSE face[g]
  BY DEF TypeOK
<1>2. TypeOK'
  BY DEF TypeOK, Exists
<1>3. SessionsConfirmed'
  BY <1>1 DEF SessionsConfirmed
<1>4. /\ OneAccount' /\ IdentityExists' /\ LockedComplete' /\ EditConfirmed'
      /\ VerifiedNumberUnique' /\ VerifiedWasConfirmed'
  BY DEF OneAccount, IdentityExists, LockedComplete, EditConfirmed,
         VerifiedNumberUnique, VerifiedWasConfirmed, Exists
<1> QED  BY <1>2, <1>3, <1>4

LEMMA FindByStudentNoStep ==
    ASSUME IInv, NEW f \in Faces, NEW shown \in Shown, FindByStudentNo(f, shown)
    PROVE  IInv'
<1>1. UNCHANGED <<row, identity, login, edit, verifying, confirmed>>
  BY DEF FindByStudentNo
<1>2. CASE \E u \in Users : FirstWith(shown, u) /\ Answer(f, shown, u)
  BY <1>1, <1>2, AnswerStep DEF FirstWith
<1>3. CASE face' = [face EXCEPT ![f] =
               [at |-> "missed", shown |-> shown, user |-> NoUser]]
  <2> DEFINE r == [at |-> "missed", shown |-> shown, user |-> NoUser]
  <2>1. r \in [at: {"missed", "refused"}, shown: Shown \cup {NoNumber}, user: Users \cup {NoUser}]
    OBVIOUS
  <2> QED  BY <1>1, <1>3, <2>1, NoAnswerStep
<1> QED  BY <1>2, <1>3 DEF FindByStudentNo

LEMMA FindByIDStep ==
    ASSUME IInv, NEW f \in Faces, FindByID(f)
    PROVE  IInv'
<1> DEFINE shown == face[f].shown
<1>1. UNCHANGED <<row, identity, login, edit, verifying, confirmed>>
  BY DEF FindByID
<1>2. CASE shown \in Users /\ Exists(shown)
  <2>1. shown \in Shown /\ Answer(f, shown, shown)
    BY <1>2 DEF FindByID, Shown
  <2> QED  BY <1>1, <1>2, <2>1, AnswerStep
<1>3. CASE ~(shown \in Users /\ Exists(shown))
  <2> DEFINE r == [face[f] EXCEPT !.at = "refused"]
  <2>1. face' = [face EXCEPT ![f] = r]
    BY <1>3 DEF FindByID
  <2>2. r \in [at: {"missed", "refused"}, shown: Shown \cup {NoNumber}, user: Users \cup {NoUser}]
    BY DEF IInv, TypeOK
  <2> QED  BY <1>1, <2>1, <2>2, NoAnswerStep
<1> QED  BY <1>2, <1>3

LEMMA StutterStep == IInv /\ UNCHANGED vars => IInv'
<1> SUFFICES ASSUME IInv, UNCHANGED vars PROVE IInv'
  OBVIOUS
<1> USE DEF IInv, vars
<1>1. TypeOK'
  BY DEF TypeOK, Exists
<1>2. OneAccount' /\ IdentityExists' /\ LockedComplete' /\ EditConfirmed'
  BY DEF OneAccount, IdentityExists, LockedComplete, EditConfirmed, Exists, Completed
<1>3. VerifiedNumberUnique' /\ VerifiedWasConfirmed' /\ SessionsConfirmed'
  BY DEF VerifiedNumberUnique, VerifiedWasConfirmed, SessionsConfirmed, Exists
<1> QED  BY <1>1, <1>2, <1>3

LEMMA NextInvariant == IInv /\ [Next]_vars => IInv'
BY BeginLoginStep, CreateWithIdentityStep, ReadProfileStep, SaveProfileStep, BeginVerifyStep,
   CommitVerifyStep, FindByStudentNoStep, FindByIDStep, StutterStep DEF Next

-----------------------------------------------------------------------------
(* Theorems                                                                *)

\* The strengthening holds in every reachable state: in particular a row that
\* a request still has to save carries the mark of a verification only with
\* the number it was given for (auth_service.go:213-240).
THEOREM Inductive == Spec => []IInv
<1>1. Init => IInv
  BY InitInvariant
<1>2. IInv /\ [Next]_vars => IInv'
  BY NextInvariant
<1> QED  BY <1>1, <1>2, PTL DEF Spec

\* Rows, identities and requests keep their types, and only rows that exist
\* are edited or locked.
THEOREM TypeCorrect == Spec => []TypeOK
<1>1. IInv => TypeOK
  BY DEF IInv
<1> QED  BY <1>1, Inductive, PTL

\* However many first logins run at once, a WeChat user gets one account and
\* every login leads to it (auth_service.go:66-153,
\* user_repository.go:119-130).
THEOREM AccountUnique == Spec => []OneAccount
<1>1. IInv => OneAccount
  BY DEF IInv
<1> QED  BY <1>1, Inductive, PTL

\* No student number is verified for two accounts, for any number of users,
\* verifications and profiles saved late (user_repository.go:58-89).
THEOREM NumberUnique == Spec => []VerifiedNumberUnique
<1>1. IInv => VerifiedNumberUnique
  BY DEF IInv
<1> QED  BY <1>1, Inductive, PTL

\* The mark of a verified account is one an administrator gave it with the
\* number it has (auth_service.go:213-240).
THEOREM VerifiedConfirmed == Spec => []VerifiedWasConfirmed
<1>1. IInv => VerifiedWasConfirmed
  BY DEF IInv
<1> QED  BY <1>1, Inductive, PTL

\* A face session is signed only for a user an administrator verified: with
\* the number that was shown, however late profiles are saved in between, or,
\* when no row had what was shown as its number and it was the id of a user,
\* for that user, verified with a number that is not the one shown
\* (cabinet_service.go:371-389).
THEOREM SessionConfirmed == Spec => []SessionsConfirmed
<1>1. IInv => SessionsConfirmed
  BY DEF IInv
<1> QED  BY <1>1, Inductive, PTL
=============================================================================
