------------------------------ MODULE Accounts ------------------------------
(***************************************************************************)
(* identity-service: the accounts of internal/service/user_service.go.     *)
(* Requests register an account, log in, change the password and change    *)
(* the nickname.  Each of them reads a row and writes it later, so others  *)
(* come in between; bcrypt takes long enough for that to happen.  The      *)
(* token that a login issues is not stored: it is good until it expires,   *)
(* whatever becomes of the password.                                       *)
(*                                                                         *)
(* A bcrypt hash is a pair of the password and a salt, and no two hashes   *)
(* have the same salt: a request hashes once, so the request is the salt.  *)
(* InnoDB makes an insert of a name wait for an uncommitted insert of the  *)
(* same name.  Nothing in the code disables or deletes an account.         *)
(***************************************************************************)
EXTENDS Naturals

CONSTANTS Users, Passwords, Nicknames, Requests,
          Short,        \* passwords that validatePassword refuses
          NoRequest, NoHash, NoName

ASSUME AccountsAssumption ==
  /\ Short \subseteq Passwords
  /\ NoRequest \notin Requests
  /\ NoHash \notin Passwords \X Requests
  /\ NoName \notin Users \cup Passwords \cup Nicknames

VARIABLES hash,         \* password_hash of each committed row of users
          nickname,     \* its nickname; Register takes the username
          role,         \* users with a committed row of user_roles
          inserting,    \* the request whose insert of a name is not committed
          live,         \* users who hold a token that has not expired
          req           \* the requests

accountVars == <<hash, nickname, role, inserting>>

vars == <<accountVars, live, req>>

Hash == Passwords \X Requests

Working == {"hashed", "inserted", "granted", "hashing", "touch", "roles", "token", "found"}

Applied == {"ok", "unknown"}

Request ==
  [pc : Working \cup Applied \cup {"new", "refused", "taken", "conflict", "failed"},
   op : {"none", "register", "login", "password", "nickname"},
   user : Users \cup {NoName},
   given : Passwords \cup {NoName},
   wanted : Passwords \cup Nicknames \cup {NoName},
   seen : Hash \cup {NoHash}]

TypeOK ==
  /\ hash \in [Users -> Hash \cup {NoHash}]
  /\ nickname \in [Users -> Users \cup Nicknames]
  /\ role \subseteq Users
  /\ inserting \in [Users -> Requests \cup {NoRequest}]
  /\ live \subseteq Users
  /\ req \in [Requests -> Request]

Init ==
  /\ hash = [u \in Users |-> NoHash]
  /\ nickname = [u \in Users |-> u]
  /\ role = {}
  /\ inserting = [u \in Users |-> NoRequest]
  /\ live = {}
  /\ req = [r \in Requests |-> [pc |-> "new", op |-> "none", user |-> NoName,
                                given |-> NoName, wanted |-> NoName, seen |-> NoHash]]

Goto(r, pc) == req' = [req EXCEPT ![r].pc = pc]

Start(r, op, u, given, wanted, seen, pc) ==
  /\ req[r].pc = "new"
  /\ req' = [req EXCEPT ![r] = [pc |-> pc, op |-> op, user |-> u, given |-> given,
                                wanted |-> wanted, seen |-> seen]]

-----------------------------------------------------------------------------
(* Register: the password is hashed, and one transaction inserts the user  *)
(* and its role.                                                           *)
Register(r, u, password) ==
  /\ Start(r, "register", u, password, NoName, NoHash,
           IF password \in Short THEN "refused" ELSE "hashed")
  /\ UNCHANGED <<accountVars, live>>

CreateUser(r) ==
  LET u == req[r].user
  IN  /\ req[r].pc = "hashed"
      /\ inserting[u] = NoRequest
      /\ IF hash[u] # NoHash THEN Goto(r, "taken") /\ UNCHANGED inserting
         ELSE Goto(r, "inserted") /\ inserting' = [inserting EXCEPT ![u] = r]
      /\ UNCHANGED <<hash, nickname, role, live>>

CreateUserRole(r) ==
  /\ req[r].pc = "inserted"
  /\ Goto(r, "granted")
  /\ UNCHANGED <<accountVars, live>>

(* Mutant of CommitUser: the user is committed without its role.           *)
CommitUserAlone(r, end) ==
  LET u == req[r].user
  IN  /\ req[r].pc = "inserted"
      /\ hash' = [hash EXCEPT ![u] = <<req[r].given, r>>]
      /\ inserting' = [inserting EXCEPT ![u] = NoRequest]
      /\ Goto(r, end)
      /\ UNCHANGED <<nickname, role, live>>

CommitUser(r, end) ==
  LET u == req[r].user
  IN  /\ req[r].pc = "granted"
      /\ hash' = [hash EXCEPT ![u] = <<req[r].given, r>>]
      /\ role' = role \cup {u}
      /\ inserting' = [inserting EXCEPT ![u] = NoRequest]
      /\ Goto(r, end)
      /\ UNCHANGED <<nickname, live>>

-----------------------------------------------------------------------------
(* Login reads the row and compares the password, writes last_login_at of  *)
(* the row (and no other column), and reads the roles; then the handler    *)
(* issues the token.                                                       *)
Login(r, u, password) ==
  /\ Start(r, "login", u, password, NoName, hash[u],
           IF hash[u] = NoHash THEN "refused"
           ELSE IF hash[u][1] # password THEN "refused" ELSE "touch")
  /\ UNCHANGED <<accountVars, live>>

(* Mutant of UpdateLastLogin: the whole row that was read is saved.        *)
UpdateLastLoginRow(r) ==
  /\ req[r].pc = "touch"
  /\ hash' = [hash EXCEPT ![req[r].user] = req[r].seen]
  /\ Goto(r, "roles")
  /\ UNCHANGED <<nickname, role, inserting, live>>

UpdateLastLogin(r) ==
  /\ req[r].pc = "touch"
  /\ Goto(r, "roles")
  /\ UNCHANGED <<accountVars, live>>

loadRoles(r) ==
  /\ req[r].pc = "roles"
  /\ Goto(r, "token")
  /\ UNCHANGED <<accountVars, live>>

GenerateAccessToken(r) ==
  /\ req[r].pc = "token"
  /\ live' = live \cup {req[r].user}
  /\ Goto(r, "ok")
  /\ UNCHANGED accountVars

(* The last token of the user expires.                                     *)
TokenExpires(u) ==
  /\ u \in live
  /\ live' = live \ {u}
  /\ UNCHANGED <<accountVars, req>>

(* AuthMiddleware lets the request of the user through.                    *)
Authenticated(u) == u \in live

-----------------------------------------------------------------------------
(* UpdatePassword, with the token of an earlier login: the row is read and *)
(* the old password compared, the new one is hashed, and the row is        *)
(* written if it still has the hash that was read.                         *)
UpdatePassword(r, u, old, new) ==
  /\ Start(r, "password", u, old, new, hash[u],
           IF ~Authenticated(u) \/ old = new \/ new \in Short THEN "refused"
           ELSE IF hash[u][1] # old THEN "refused" ELSE "hashing")
  /\ UNCHANGED <<accountVars, live>>

(* Mutant of UpdateUserPassword: the hash that was read is not compared.   *)
UpdateUserPasswordBlindly(r, end) ==
  LET u == req[r].user
  IN  /\ req[r].pc = "hashing"
      /\ Goto(r, end)
      /\ hash' = [hash EXCEPT ![u] = <<req[r].wanted, r>>]
      /\ UNCHANGED <<nickname, role, inserting, live>>

UpdateUserPassword(r, end) ==
  LET u == req[r].user
  IN  /\ req[r].pc = "hashing"
      /\ IF hash[u] = req[r].seen
           THEN Goto(r, end) /\ hash' = [hash EXCEPT ![u] = <<req[r].wanted, r>>]
           ELSE Goto(r, "conflict") /\ UNCHANGED hash
      /\ UNCHANGED <<nickname, role, inserting, live>>

-----------------------------------------------------------------------------
(* UpdateNickname reads the profile and then writes the nickname alone.    *)
UpdateNickname(r, u, name) ==
  /\ Start(r, "nickname", u, NoName, name, hash[u],
           IF Authenticated(u) THEN "found" ELSE "refused")
  /\ UNCHANGED <<accountVars, live>>

UpdateNicknameByID(r, end) ==
  /\ req[r].pc = "found"
  /\ nickname' = [nickname EXCEPT ![req[r].user] = req[r].wanted]
  /\ Goto(r, end)
  /\ UNCHANGED <<hash, role, inserting, live>>

(* A statement fails, the deadline passes or the service stops: whatever   *)
(* transaction is open is rolled back.                                     *)
Fail(r) ==
  /\ req[r].pc \in Working
  /\ Goto(r, "failed")
  /\ inserting' = [u \in Users |-> IF inserting[u] = r THEN NoRequest ELSE inserting[u]]
  /\ UNCHANGED <<hash, nickname, role, live>>

(* A write ends "unknown" when it is committed and its answer is an error. *)
Next ==
  \/ \E u \in Users : TokenExpires(u)
  \/ \E r \in Requests :
       \/ \E u \in Users, p \in Passwords : Register(r, u, p) \/ Login(r, u, p)
       \/ \E u \in Users, old, new \in Passwords : UpdatePassword(r, u, old, new)
       \/ \E u \in Users, name \in Nicknames : UpdateNickname(r, u, name)
       \/ CreateUser(r) \/ CreateUserRole(r)
       \/ UpdateLastLogin(r) \/ loadRoles(r) \/ GenerateAccessToken(r)
       \/ \E end \in Applied :
            CommitUser(r, end) \/ UpdateUserPassword(r, end) \/ UpdateNicknameByID(r, end)
       \/ Fail(r)

Spec == Init /\ [][Next]_vars

-----------------------------------------------------------------------------
(* The request made the account.                                           *)
Made(r, u) == req[r].op = "register" /\ req[r].user = u /\ req[r].pc \in Applied

(* Register is all or nothing and happens once: every account has its      *)
(* role, was made by exactly one request, and every request whose          *)
(* transaction was committed made one.  A token names such an account.     *)
RegisteredWhole ==
  /\ role = {u \in Users : hash[u] # NoHash} /\ live \subseteq role
  /\ \A u \in role : \E r \in Requests : \A q \in Requests : Made(q, u) <=> q = r
  /\ \A r \in Requests, u \in Users : Made(r, u) => u \in role

(* The password of an account is replaced only by a request that knew the  *)
(* one in force at that very moment: of two changes that both compared the *)
(* same password, one is refused, and no login, nor a change of another    *)
(* column, writes back the hash that it read.                              *)
ChangeNeedsCurrent ==
  [][\A u \in role : hash'[u] # hash[u] =>
       \E r \in Requests :
         /\ req[r].op = "password" /\ req[r].user = u
         /\ req[r].given = hash[u][1]
         /\ req[r].pc \notin Applied /\ req'[r].pc \in Applied
         /\ hash'[u] = <<req[r].wanted, r>>]_vars
=============================================================================
