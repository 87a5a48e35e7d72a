---------------------------- MODULE UserAccounts ----------------------------
(***************************************************************************)
(* User accounts: registration at the first WeChat login, the profile a    *)
(* user edits, the verification of an identity by an administrator, and    *)
(* the face session a cabinet obtains for somebody it recognised.          *)
(*                                                                         *)
(* Requests run side by side.  Registration and verification are           *)
(* transactions; a profile is edited by reading the row, without a lock,   *)
(* and later saving all of it.  User ids are random, so a new account may  *)
(* come before or after the others in the order of the primary key.  Ids   *)
(* and student numbers are strings of the same kind: a profile may give    *)
(* the id of a user as its number.                                         *)
(* Accounts are never disabled: no request does that.                      *)
(***************************************************************************)
EXTENDS Naturals, FiniteSets

CONSTANTS
    Users,    \* ids an account may get, numbers for their order
    OpenIDs,  \* WeChat users
    Numbers,  \* student numbers
    Logins,   \* requests to log in
    LoginOf,  \* the WeChat user of a login
    Edits,    \* requests to change a profile
    Faces,    \* requests for a face session
    NoUser,   \* no such row
    NoNumber  \* a profile without a student number

ASSUME AccountsAssumption ==
    /\ Users \subseteq Nat
    /\ LoginOf \in [Logins -> OpenIDs]
    /\ NoUser \notin Users
    /\ NoNumber \notin Numbers

VARIABLES
    row,        \* users: student_no, is there a real name, identity_verified
    identity,   \* user_identities
    login,      \* how far a login is and the user it found
    edit,       \* a profile change: the user and the row to be saved
    verifying,  \* users whose row VerifyIdentity has locked
    confirmed,  \* history: users an administrator verified, with the number
    face        \* how far a face session is: what was shown, and whose it is

vars == <<row, identity, login, edit, verifying, confirmed, face>>

Rows    == [number: Numbers \cup {NoNumber}, named: BOOLEAN, verified: BOOLEAN]
NewUser == [number |-> NoNumber, named |-> FALSE, verified |-> FALSE]
Absent  == [number |-> NoNumber, named |-> FALSE, verified |-> TRUE]

Shown    == Numbers \cup Users
NoFace   == [at |-> "none", shown |-> NoNumber, user |-> NoUser]

Exists(u)    == row[u] # Absent
Completed(r) == r.named /\ r.number # NoNumber

Init ==
    /\ row = [u \in Users |-> Absent]
    /\ identity = [o \in OpenIDs |-> NoUser]
    /\ login = [l \in Logins |-> [at |-> "none", user |-> NoUser]]
    /\ edit = [e \in Edits |-> [at |-> "none", user |-> NoUser, row |-> NewUser]]
    /\ verifying = {}
    /\ confirmed = {}
    /\ face = [f \in Faces |-> NoFace]

-----------------------------------------------------------------------------
(* Login                                                                   *)

\* The user of a WeChat identity.
FindIdentity(o) == identity[o]

BeginLogin(l) ==
    LET u == FindIdentity(LoginOf[l])
    IN  /\ login[l].at = "none"
        /\ login' = [login EXCEPT ![l] =
               [at |-> IF u = NoUser THEN "new" ELSE "in", user |-> u]]
        /\ UNCHANGED <<row, identity, edit, verifying, confirmed, face>>

\* Mutant: the account and the identity are created one after the other,
\* and the account stays when the identity is a duplicate.
CreateSeparately(l) ==
    LET o == LoginOf[l]
    IN  /\ login[l].at = "new"
        /\ \E u \in Users :
               /\ ~Exists(u)
               /\ row' = [row EXCEPT ![u] = NewUser]
               /\ identity' = [identity EXCEPT ![o] = IF @ = NoUser THEN u ELSE @]
               /\ login' = [login EXCEPT ![l] =
                      IF identity[o] = NoUser THEN [at |-> "in", user |-> u]
                      ELSE [at |-> "failed", user |-> NoUser]]
        /\ UNCHANGED <<edit, verifying, confirmed, face>>

\* The rows of the transaction.
InsertWithIdentity(u, o) ==
    /\ row' = [row EXCEPT ![u] = NewUser]
    /\ identity' = [identity EXCEPT ![o] = u]

\* The transaction of a first login; the unique identity lets one of two
\* simultaneous first logins through, the other fails.
CreateWithIdentity(l) ==
    LET o == LoginOf[l]
    IN  /\ login[l].at = "new"
        /\ IF identity[o] = NoUser
           THEN \E u \in Users :
                    /\ ~Exists(u)
                    /\ InsertWithIdentity(u, o)
                    /\ login' = [login EXCEPT ![l] = [at |-> "in", user |-> u]]
           ELSE /\ login' = [login EXCEPT ![l].at = "failed"]
                /\ UNCHANGED <<row, identity>>
        /\ UNCHANGED <<edit, verifying, confirmed, face>>

-----------------------------------------------------------------------------
(* Profile                                                                 *)

\* Mutant: only a new name asks for a new verification.
RenamedOnly(old, new) == new.named # old.named

\* Does a change touch the identity?  A second real name counts as the first.
IdentityChanged(old, new) == new.number # old.number \/ new.named # old.named

\* The row UpdateProfile is going to save: a request gives a number, a name,
\* both, or only what is not part of an identity.
Edited(old, number, rename) ==
    LET new == [old EXCEPT !.number = number, !.named = @ \/ rename]
    IN  IF IdentityChanged(old, new) THEN [new EXCEPT !.verified = FALSE] ELSE new

\* Mutant: a user that is not found is edited all the same.
ReadAnyProfile(e) ==
    /\ edit[e].at = "none"
    /\ \E l \in Logins, rename \in BOOLEAN : \E u \in Users :
           \E number \in Numbers \cup {row[u].number} :
               /\ login[l].at # "failed"
               /\ edit' = [edit EXCEPT ![e] =
                      [at |-> "read", user |-> u, row |-> Edited(row[u], number, rename)]]
    /\ UNCHANGED <<row, identity, login, verifying, confirmed, face>>

\* FindByID, for a user who is logged in.
ReadProfile(e) ==
    /\ edit[e].at = "none"
    /\ \E l \in Logins, rename \in BOOLEAN :
           LET u == login[l].user
           IN  /\ login[l].at = "in"
               /\ \E number \in Numbers \cup {row[u].number} :
                      edit' = [edit EXCEPT ![e] =
                          [at |-> "read", user |-> u, row |-> Edited(row[u], number, rename)]]
    /\ UNCHANGED <<row, identity, login, verifying, confirmed, face>>

\* Mutant: the index does not exist.
TakenNever(u, number) == FALSE

\* idx_users_verified_student_no refuses a second verified row of a number.
Taken(u, number) ==
    \E v \in Users \ {u} : Exists(v) /\ row[v].verified /\ row[v].number = number

\* Save writes every column, from the row as it was read; it waits for a
\* verification that holds the row.
SaveProfile(e) ==
    LET u == edit[e].user
        new == edit[e].row
    IN  /\ edit[e].at = "read"
        /\ u \notin verifying
        /\ row' = [row EXCEPT ![u] =
               IF new.verified /\ Taken(u, new.number) THEN @ ELSE new]
        /\ edit' = [edit EXCEPT ![e] = [at |-> "done", user |-> NoUser, row |-> NewUser]]
        /\ UNCHANGED <<identity, login, verifying, confirmed, face>>

-----------------------------------------------------------------------------
(* Verification and face sessions                                          *)

\* VerifyIdentity locks the row of a completed profile and finds nobody else
\* verified with the number ...
BeginVerify(u) ==
    /\ Exists(u)
    /\ u \notin verifying
    /\ Completed(row[u])
    /\ ~\E v \in Users \ {u} : Exists(v) /\ row[v].verified /\ row[v].number = row[u].number
    /\ verifying' = verifying \cup {u}
    /\ UNCHANGED <<row, identity, login, edit, confirmed, face>>

\* ... and marks it, unless the index finds another one by then.
CommitVerify(u) ==
    /\ u \in verifying
    /\ verifying' = verifying \ {u}
    /\ IF Taken(u, row[u].number)
       THEN UNCHANGED <<row, confirmed>>
       ELSE /\ row' = [row EXCEPT ![u].verified = TRUE]
            /\ confirmed' = confirmed \cup {<<u, row[u].number>>}
    /\ UNCHANGED <<identity, login, edit, face>>

\* The first row of that number, verified or not.
FirstWith(number, u) ==
    /\ Exists(u)
    /\ row[u].number = number
    /\ \A v \in Users : (Exists(v) /\ row[v].number = number) => u =< v

\* The row decides: a session is signed for a verified user only.
Answer(f, shown, u) ==
    face' = [face EXCEPT ![f] =
        IF row[u].verified THEN [at |-> "in", shown |-> shown, user |-> u]
        ELSE [at |-> "refused", shown |-> shown, user |-> NoUser]]

\* FaceAuth looks for a row with the number that was shown ...
FindByStudentNo(f, shown) ==
    /\ face[f].at = "none"
    /\ \/ \E u \in Users : FirstWith(shown, u) /\ Answer(f, shown, u)
       \/ /\ \A u \in Users : ~FirstWith(shown, u)
          /\ face' = [face EXCEPT ![f] =
                 [at |-> "missed", shown |-> shown, user |-> NoUser]]
    /\ UNCHANGED <<row, identity, login, edit, verifying, confirmed>>

\* ... and, when there is none, for the user with that id.
FindByID(f) ==
    LET shown == face[f].shown
    IN  /\ face[f].at = "missed"
        /\ IF shown \in Users /\ Exists(shown)
           THEN Answer(f, shown, shown)
           ELSE face' = [face EXCEPT ![f].at = "refused"]
        /\ UNCHANGED <<row, identity, login, edit, verifying, confirmed>>

-----------------------------------------------------------------------------
Next ==
    \/ \E l \in Logins : BeginLogin(l) \/ CreateWithIdentity(l)
    \/ \E e \in Edits : ReadProfile(e) \/ SaveProfile(e)
    \/ \E u \in Users : BeginVerify(u) \/ CommitVerify(u)
    \/ \E f \in Faces : FindByID(f) \/ \E x \in Shown : FindByStudentNo(f, x)

Spec == Init /\ [][Next]_vars

-----------------------------------------------------------------------------
(* Properties                                                              *)

\* Rows and requests keep their types; only rows that exist are edited or
\* locked.
TypeOK ==
    /\ row \in [Users -> Rows]
    /\ identity \in [OpenIDs -> Users \cup {NoUser}]
    /\ login \in [Logins -> [at: {"none", "new", "in", "failed"}, user: Users \cup {NoUser}]]
    /\ edit \in [Edits -> [at: {"none", "read", "done"}, user: Users \cup {NoUser}, row: Rows]]
    /\ \A e \in Edits : edit[e].at = "read" => edit[e].user \in Users /\ Exists(edit[e].user)
    /\ \A u \in verifying : u \in Users /\ Exists(u)
    /\ confirmed \subseteq Users \X Numbers
    /\ face \in [Faces -> [at: {"none", "missed", "in", "refused"},
                           shown: Shown \cup {NoNumber}, user: Users \cup {NoUser}]]

\* A WeChat user has one account at most, every account somebody who can log
\* in to it, and a login that succeeds leads to the user's own account: also
\* when the first logins of a user run at the same time
\* (auth_service.go:66-153, user_repository.go:119-130).
OneAccount ==
    /\ \A u \in Users : Exists(u) => \E o \in OpenIDs : identity[o] = u
    /\ \A o, p \in OpenIDs : identity[o] = identity[p] /\ identity[o] # NoUser => o = p
    /\ \A l \in Logins : login[l].at = "in" =>
           login[l].user = identity[LoginOf[l]] /\ login[l].user # NoUser

\* No student number is verified for two accounts, whatever verifications and
\* late saves of old rows run at once (user_repository.go:58-85, 87-89).
VerifiedNumberUnique ==
    \A u, v \in Users :
        /\ Exists(u) /\ row[u].verified
        /\ Exists(v) /\ row[v].verified
        /\ row[u].number = row[v].number
        => u = v

\* The number of a verified account is one an administrator verified for it:
\* a profile saved over a verification, or restored by a late save, does not
\* carry the mark to another number (auth_service.go:213-240).
VerifiedWasConfirmed ==
    \A u \in Users : Exists(u) /\ row[u].verified => <<u, row[u].number>> \in confirmed

\* A face session is signed for a user an administrator verified: with the
\* number that was shown or, when what was shown is the user's own id, with
\* some number (cabinet_service.go:371-389).
SessionsConfirmed ==
    \A f \in Faces : face[f].at = "in" =>
        \/ <<face[f].user, face[f].shown>> \in confirmed
        \/ /\ face[f].shown = face[f].user
           /\ \E n \in Numbers : <<face[f].user, n>> \in confirmed
=============================================================================
