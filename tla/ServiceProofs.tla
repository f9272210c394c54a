--------------------------- MODULE ServiceProofs ---------------------------
(***************************************************************************)
(* Proofs about the services beside orders and stock: the accounts of the  *)
(* user service for any users, passwords and requests, and the product     *)
(* service and its cache for any products and goroutines.                  *)
(***************************************************************************)
EXTENDS AccountsHistory, ProductCache, TLAPS

(* What a request knows at each of its steps.                              *)
Sound(r) ==
  /\ req[r].pc \in {"hashed", "inserted", "granted"} =>
       req[r].op = "register" /\ req[r].user \in Users /\ req[r].given \in Passwords
  /\ req[r].pc \in {"inserted", "granted"} => inserting[req[r].user] = r
  /\ req[r].pc = "hashing" =>
       /\ req[r].op = "password" /\ req[r].user \in role
       /\ req[r].wanted \in Passwords
       /\ req[r].seen \in Hash /\ req[r].given = req[r].seen[1]
  /\ req[r].pc \in {"touch", "roles", "token"} =>
       req[r].op = "login" /\ req[r].user \in role
  /\ req[r].pc = "found" =>
       req[r].op = "nickname" /\ req[r].user \in Users /\ req[r].wanted \in Nicknames

(* A name whose insert is not committed has no account yet.                *)
Held(u) ==
  inserting[u] # NoRequest =>
    /\ hash[u] = NoHash
    /\ req[inserting[u]].user = u
    /\ req[inserting[u]].pc \in {"inserted", "granted"}

AccountsInv ==
  /\ TypeOK
  /\ RegisteredWhole
  /\ \A r \in Requests : Sound(r)
  /\ \A u \in Users : Held(u)

(* The provers' view of a request record that changes its step.            *)
LEMMA GotoFields ==
  ASSUME TypeOK, NEW r \in Requests, NEW pc, Goto(r, pc)
  PROVE  /\ req'[r].pc = pc
         /\ req'[r].op = req[r].op /\ req'[r].user = req[r].user
         /\ req'[r].given = req[r].given /\ req'[r].wanted = req[r].wanted
         /\ req'[r].seen = req[r].seen
         /\ \A q \in Requests \ {r} : req'[q] = req[q]
BY Zenon DEF TypeOK, Goto, Request

LEMMA GotoTyped ==
  ASSUME TypeOK, NEW r \in Requests,
         NEW pc \in Working \cup Applied \cup {"taken", "conflict", "failed"}, Goto(r, pc)
  PROVE  req' \in [Requests -> Request]
BY DEF TypeOK, Goto, Request

LEMMA StartFields ==
  ASSUME TypeOK, NEW r \in Requests, NEW op, NEW u, NEW given, NEW wanted, NEW seen, NEW pc,
         Start(r, op, u, given, wanted, seen, pc)
  PROVE  /\ req[r].pc = "new"
         /\ req'[r].pc = pc /\ req'[r].op = op /\ req'[r].user = u
         /\ req'[r].given = given /\ req'[r].wanted = wanted /\ req'[r].seen = seen
         /\ \A q \in Requests \ {r} : req'[q] = req[q]
BY Zenon DEF TypeOK, Start, Request

(* A request that starts changes no account.                               *)
LEMMA StartKeeps ==
  ASSUME AccountsInv, NEW r \in Requests,
         NEW op \in {"register", "login", "password", "nickname"}, NEW u \in Users,
         NEW given \in Passwords \cup {NoName},
         NEW wanted \in Passwords \cup Nicknames \cup {NoName},
         NEW seen \in Hash \cup {NoHash},
         NEW pc \in {"refused", "hashed", "touch", "hashing", "found"},
         Start(r, op, u, given, wanted, seen, pc),
         UNCHANGED <<accountVars, live>>,
         pc = "hashed" => op = "register" /\ given \in Passwords,
         pc = "touch" => op = "login" /\ u \in role,
         pc = "found" => op = "nickname" /\ wanted \in Nicknames,
         pc = "hashing" => /\ op = "password" /\ u \in role /\ wanted \in Passwords
                           /\ seen \in Hash /\ given = seen[1]
  PROVE  AccountsInv'
<1> USE DEF accountVars
<1>1. /\ req[r].pc = "new"
      /\ req'[r].pc = pc /\ req'[r].op = op /\ req'[r].user = u
      /\ req'[r].given = given /\ req'[r].wanted = wanted /\ req'[r].seen = seen
      /\ \A q \in Requests \ {r} : req'[q] = req[q]
  BY StartFields, Zenon DEF AccountsInv
<1>2. TypeOK'
  BY DEF AccountsInv, TypeOK, Start, Request, Working, Applied
<1>3. RegisteredWhole'
  <2>1. \A q \in Requests, v \in Users : Made(q, v)' <=> Made(q, v)
    BY <1>1, Zenon DEF Made, Applied
  <2>2. QED
    BY <2>1 DEF AccountsInv, RegisteredWhole
<1>4. \A q \in Requests : Sound(q)'
  <2>1. Sound(r)'
    BY <1>1, Zenon DEF Sound
  <2>2. \A q \in Requests \ {r} : Sound(q)'
    BY <1>1 DEF AccountsInv, Sound
  <2>3. QED
    BY <2>1, <2>2, Zenon
<1>5. \A v \in Users : Held(v)'
  BY <1>1 DEF AccountsInv, Held, TypeOK
<1>6. QED
  BY <1>2, <1>3, <1>4, <1>5, Zenon DEF AccountsInv

LEMMA CreateUserKeeps ==
  ASSUME AccountsInv, NEW r \in Requests, CreateUser(r)
  PROVE  AccountsInv'
<1>1. PICK pc \in {"taken", "inserted"} :
        /\ Goto(r, pc)
        /\ \/ pc = "taken" /\ UNCHANGED inserting
           \/ /\ pc = "inserted" /\ hash[req[r].user] = NoHash
              /\ inserting' = [inserting EXCEPT ![req[r].user] = r]
  BY Zenon DEF CreateUser
<1>2. /\ req'[r].pc = pc
      /\ req'[r].op = req[r].op /\ req'[r].user = req[r].user
      /\ req'[r].given = req[r].given /\ req'[r].wanted = req[r].wanted
      /\ req'[r].seen = req[r].seen
      /\ \A q \in Requests \ {r} : req'[q] = req[q]
  BY <1>1, GotoFields, Zenon DEF AccountsInv
<1>3. /\ req[r].pc = "hashed" /\ req[r].op = "register" /\ req[r].user \in Users
      /\ UNCHANGED <<hash, nickname, role, live>>
      /\ inserting[req[r].user] = NoRequest
  BY Zenon DEF CreateUser, AccountsInv, Sound
<1>4. TypeOK'
  BY <1>1, <1>3, GotoTyped, Zenon DEF AccountsInv, TypeOK, Working
<1>5. RegisteredWhole'
  <2>1. \A q \in Requests, v \in Users : Made(q, v)' <=> Made(q, v)
    BY <1>2, <1>3, Zenon DEF Made, Applied
  <2>2. QED
    BY <1>3, <2>1 DEF AccountsInv, RegisteredWhole
<1>6. \A q \in Requests : Sound(q)'
  <2>1. \A q \in Requests \ {r} : req[q].pc \in {"inserted", "granted"} =>
                                    req[q].user # req[r].user
    BY <1>3, AccountsAssumption, Zenon DEF AccountsInv, Sound
  <2>2. Sound(r)'
    BY <1>1, <1>2, <1>3 DEF AccountsInv, Sound, TypeOK
  <2>3. \A q \in Requests \ {r} : Sound(q)'
    BY <1>1, <1>2, <1>3, <2>1 DEF AccountsInv, Sound, TypeOK
  <2>4. QED
    BY <2>2, <2>3, Zenon
<1>7. \A v \in Users : Held(v)'
  BY <1>1, <1>2, <1>3 DEF AccountsInv, Held, TypeOK
<1>8. QED
  BY <1>4, <1>5, <1>6, <1>7, Zenon DEF AccountsInv

LEMMA CommitUserKeeps ==
  ASSUME AccountsInv, NEW r \in Requests, NEW end \in Applied, CommitUser(r, end)
  PROVE  AccountsInv'
<1>0. PICK u \in Users : u = req[r].user
  BY Zenon DEF CommitUser, AccountsInv, Sound
<1>1. /\ req'[r].pc = end
      /\ req'[r].op = req[r].op /\ req'[r].user = req[r].user
      /\ req'[r].given = req[r].given /\ req'[r].wanted = req[r].wanted
      /\ req'[r].seen = req[r].seen
      /\ \A q \in Requests \ {r} : req'[q] = req[q]
  BY GotoFields, Zenon DEF AccountsInv, CommitUser
<1>2. /\ req[r].pc = "granted" /\ req[r].op = "register" /\ u = req[r].user
      /\ inserting[u] = r /\ hash[u] = NoHash
  BY <1>0, AccountsAssumption DEF CommitUser, AccountsInv, Sound, Held
<1>3. /\ hash' = [hash EXCEPT ![u] = <<req[r].given, r>>]
      /\ role' = role \cup {u}
      /\ inserting' = [inserting EXCEPT ![u] = NoRequest]
      /\ UNCHANGED <<nickname, live>>
  BY <1>0, Zenon DEF CommitUser
<1>4. req[r].given \in Passwords
  BY <1>2, Zenon DEF AccountsInv, Sound
<1>5. TypeOK'
  <2>1. req' \in [Requests -> Request]
    BY GotoTyped, Zenon DEF CommitUser, AccountsInv
  <2>2. <<req[r].given, r>> \in Hash
    BY <1>4, Zenon DEF Hash
  <2>3. QED
    BY <1>2, <1>3, <2>1, <2>2, Zenon DEF AccountsInv, TypeOK
<1>6. RegisteredWhole'
  <2>1. \A q \in Requests, v \in Users :
          Made(q, v)' <=> Made(q, v) \/ (q = r /\ v = u)
    BY <1>1, <1>2, Zenon DEF Made, Applied
  <2>2. u \notin role /\ \A q \in Requests : ~Made(q, u)
    BY <1>2, Zenon DEF AccountsInv, RegisteredWhole
  <2>3. role' = {v \in Users : hash'[v] # NoHash}
    <3>1. <<req[r].given, r>> # NoHash
      BY <1>4, AccountsAssumption
    <3>2. QED
      BY <1>2, <1>3, <3>1, Zenon DEF AccountsInv, RegisteredWhole, TypeOK
  <2>4. \A v \in role' : \E p \in Requests : \A q \in Requests : Made(q, v)' <=> q = p
    <3>1. \A v \in role : v \in Users /\ v # u
      BY <2>2, Zenon DEF AccountsInv, TypeOK
    <3>2. \A v \in role : \E p \in Requests : \A q \in Requests : Made(q, v)' <=> q = p
      BY <2>1, <3>1 DEF AccountsInv, RegisteredWhole
    <3>3. \A q \in Requests : Made(q, u)' <=> q = r
      BY <1>2, <2>1, <2>2, Zenon
    <3>4. QED
      BY <1>3, <3>2, <3>3, Zenon
  <2>5. \A q \in Requests, v \in Users : Made(q, v)' => v \in role'
    BY <1>3, <2>1, Zenon DEF AccountsInv, RegisteredWhole
  <2>6. live' \subseteq role'
    BY <1>3, Zenon DEF AccountsInv, RegisteredWhole
  <2>7. QED
    BY <2>3, <2>4, <2>5, <2>6, Zenon DEF RegisteredWhole
<1>7. \A q \in Requests : Sound(q)'
  <2>1. \A q \in Requests \ {r} : req[q].pc \in {"inserted", "granted"} => req[q].user # u
    BY <1>2, Zenon DEF AccountsInv, Sound
  <2>2. Sound(r)'
    BY <1>1, Zenon DEF Sound, Applied
  <2>3. \A q \in Requests \ {r} : Sound(q)'
    BY <1>1, <1>2, <1>3, <2>1 DEF AccountsInv, Sound, TypeOK
  <2>4. QED
    BY <2>2, <2>3, Zenon
<1>8. \A v \in Users : Held(v)'
  BY <1>1, <1>2, <1>3 DEF AccountsInv, Held, TypeOK
<1>9. QED
  BY <1>5, <1>6, <1>7, <1>8, Zenon DEF AccountsInv

(* A step that only moves on a request, issues the token when a login      *)
(* ends, or gives up what was inserted, changes no account.                *)
LEMMA QuietKeeps ==
  ASSUME AccountsInv, NEW r \in Requests,
         NEW pc \in {"granted", "roles", "token", "ok", "conflict", "failed"},
         Goto(r, pc), UNCHANGED <<hash, nickname, role>>,
         pc = "granted" => req[r].pc = "inserted" /\ UNCHANGED inserting,
         pc = "roles" => req[r].pc = "touch" /\ UNCHANGED inserting,
         pc = "token" => req[r].pc = "roles" /\ UNCHANGED inserting,
         pc = "ok" => req[r].pc = "token" /\ UNCHANGED inserting,
         live' = IF pc = "ok" THEN live \cup {req[r].user} ELSE live,
         pc = "conflict" => req[r].pc = "hashing" /\ UNCHANGED inserting,
         pc = "failed" =>
           /\ req[r].pc \in Working
           /\ inserting' = [u \in Users |->
                              IF inserting[u] = r THEN NoRequest ELSE inserting[u]]
  PROVE  AccountsInv'
<1>1. /\ req'[r].pc = pc
      /\ req'[r].op = req[r].op /\ req'[r].user = req[r].user
      /\ req'[r].given = req[r].given /\ req'[r].wanted = req[r].wanted
      /\ req'[r].seen = req[r].seen
      /\ \A q \in Requests \ {r} : req'[q] = req[q]
  BY GotoFields, Zenon DEF AccountsInv
<1>2. TypeOK'
  <2>1. req' \in [Requests -> Request]
    BY GotoTyped, Zenon DEF AccountsInv, Working, Applied
  <2>2. live' \subseteq Users
    BY DEF AccountsInv, TypeOK, Sound
  <2>3. QED
    BY <2>1, <2>2, Zenon DEF AccountsInv, TypeOK
<1>3. RegisteredWhole'
  <2>1. \A q \in Requests, v \in Users : Made(q, v)' <=> Made(q, v)
    BY <1>1 DEF Made, Applied, Working, AccountsInv, Sound
  <2>2. live' \subseteq role
    BY DEF AccountsInv, RegisteredWhole, Sound
  <2>3. QED
    BY <2>1, <2>2 DEF AccountsInv, RegisteredWhole
<1>4. \A q \in Requests : Sound(q)'
  BY <1>1 DEF AccountsInv, Sound, TypeOK
<1>5. \A v \in Users : Held(v)'
  BY <1>1, AccountsAssumption DEF AccountsInv, Held, TypeOK, Sound
<1>6. QED
  BY <1>2, <1>3, <1>4, <1>5, Zenon DEF AccountsInv

(* The two writes of an account that exists.                               *)
LEMMA WriteKeeps ==
  ASSUME AccountsInv, NEW r \in Requests, NEW end \in Applied, Goto(r, end),
         req[r].pc \in {"hashing", "found"}, UNCHANGED <<role, inserting, live>>,
         \/ /\ req[r].pc = "hashing" /\ UNCHANGED nickname
            /\ hash' = [hash EXCEPT ![req[r].user] = <<req[r].wanted, r>>]
         \/ /\ req[r].pc = "found" /\ UNCHANGED hash
            /\ nickname' = [nickname EXCEPT ![req[r].user] = req[r].wanted]
  PROVE  AccountsInv'
<1>1. /\ req'[r].pc = end
      /\ req'[r].op = req[r].op /\ req'[r].user = req[r].user
      /\ req'[r].given = req[r].given /\ req'[r].wanted = req[r].wanted
      /\ req'[r].seen = req[r].seen
      /\ \A q \in Requests \ {r} : req'[q] = req[q]
  BY GotoFields, Zenon DEF AccountsInv
<1>2. req[r].pc = "hashing" =>
        /\ <<req[r].wanted, r>> \in Hash /\ <<req[r].wanted, r>> # NoHash
        /\ req[r].user \in role /\ hash[req[r].user] # NoHash
  BY AccountsAssumption DEF AccountsInv, Sound, Hash, RegisteredWhole
<1>3. TypeOK'
  <2>1. req' \in [Requests -> Request]
    BY GotoTyped, Zenon DEF AccountsInv
  <2>2. QED
    BY <1>2, <2>1 DEF AccountsInv, TypeOK, Sound
<1>4. RegisteredWhole'
  <2>1. \A q \in Requests, v \in Users : Made(q, v)' <=> Made(q, v)
    BY <1>1 DEF Made, Applied, AccountsInv, Sound
  <2>2. \A v \in Users : hash'[v] # NoHash <=> hash[v] # NoHash
    BY <1>2, Zenon DEF AccountsInv, TypeOK
  <2>3. QED
    BY <2>1, <2>2 DEF AccountsInv, RegisteredWhole
<1>5. \A q \in Requests : Sound(q)'
  BY <1>1 DEF AccountsInv, Sound, TypeOK, Applied
<1>6. \A v \in Users : Held(v)'
  BY <1>1, <1>2 DEF AccountsInv, Held, TypeOK
<1>7. QED
  BY <1>3, <1>4, <1>5, <1>6, Zenon DEF AccountsInv

LEMMA InvStart == Init => AccountsInv
<1> SUFFICES ASSUME Init PROVE AccountsInv
  BY Zenon
<1>1. \A r \in Requests : req[r].pc = "new" /\ req[r].op = "none"
  BY Zenon DEF Init
<1>2. TypeOK
  BY Zenon DEF Init, TypeOK, Request, Working, Applied
<1>3. RegisteredWhole
  BY <1>1, Zenon DEF Init, RegisteredWhole, Made
<1>4. \A r \in Requests : Sound(r)
  BY <1>1, Zenon DEF Sound
<1>5. \A u \in Users : Held(u)
  BY Zenon DEF Init, Held
<1>6. QED
  BY <1>2, <1>3, <1>4, <1>5, Zenon DEF AccountsInv

LEMMA InvStep == AccountsInv /\ [Next]_vars => AccountsInv'
<1> SUFFICES ASSUME AccountsInv, [Next]_vars PROVE AccountsInv'
  BY Zenon
<1>1. CASE UNCHANGED vars
  BY <1>1 DEF vars, accountVars, AccountsInv, TypeOK, RegisteredWhole, Made, Sound, Held
<1>2. ASSUME NEW r \in Requests, NEW u \in Users, NEW p \in Passwords, Register(r, u, p)
      PROVE  AccountsInv'
  <2>1. PICK pc \in {"refused", "hashed"} : Start(r, "register", u, p, NoName, NoHash, pc)
    BY <1>2, Zenon DEF Register
  <2>2. UNCHANGED <<accountVars, live>>
    BY <1>2, Zenon DEF Register
  <2>3. QED
    BY <2>1, <2>2, StartKeeps, Zenon
<1>3. ASSUME NEW r \in Requests, NEW u \in Users, NEW p \in Passwords, Login(r, u, p)
      PROVE  AccountsInv'
  <2>1. PICK pc \in {"refused", "touch"} :
          /\ Start(r, "login", u, p, NoName, hash[u], pc)
          /\ pc = "touch" => hash[u] # NoHash
    BY <1>3, Zenon DEF Login
  <2>2. /\ UNCHANGED <<accountVars, live>> /\ hash[u] \in Hash \cup {NoHash}
        /\ hash[u] # NoHash => u \in role
    BY <1>3, Zenon DEF Login, AccountsInv, TypeOK, RegisteredWhole
  <2>3. QED
    BY <2>1, <2>2, StartKeeps, Zenon
<1>4. ASSUME NEW r \in Requests, NEW u \in Users,
             NEW old \in Passwords, NEW new \in Passwords, UpdatePassword(r, u, old, new)
      PROVE  AccountsInv'
  <2>1. PICK pc \in {"refused", "hashing"} :
          /\ Start(r, "password", u, old, new, hash[u], pc)
          /\ pc = "hashing" => u \in live /\ hash[u][1] = old
    BY <1>4, Zenon DEF UpdatePassword, Authenticated
  <2>2. /\ UNCHANGED <<accountVars, live>> /\ hash[u] \in Hash \cup {NoHash}
        /\ u \in live => u \in role /\ hash[u] \in Hash
    BY <1>4, Zenon DEF UpdatePassword, AccountsInv, TypeOK, RegisteredWhole
  <2>3. QED
    BY <2>1, <2>2, StartKeeps, Zenon
<1>5. ASSUME NEW r \in Requests, NEW u \in Users, NEW name \in Nicknames,
             UpdateNickname(r, u, name)
      PROVE  AccountsInv'
  <2>1. PICK pc \in {"refused", "found"} : Start(r, "nickname", u, NoName, name, hash[u], pc)
    BY <1>5, Zenon DEF UpdateNickname
  <2>2. UNCHANGED <<accountVars, live>> /\ hash[u] \in Hash \cup {NoHash}
    BY <1>5, Zenon DEF UpdateNickname, AccountsInv, TypeOK
  <2>3. QED
    BY <2>1, <2>2, StartKeeps, Zenon
<1>6. ASSUME NEW r \in Requests,
             \/ CreateUserRole(r) \/ UpdateLastLogin(r) \/ loadRoles(r)
             \/ GenerateAccessToken(r) \/ Fail(r)
      PROVE  AccountsInv'
  BY <1>6, QuietKeeps, Zenon DEF CreateUserRole, UpdateLastLogin, loadRoles,
     GenerateAccessToken, Fail, accountVars
<1>7. ASSUME NEW r \in Requests, NEW end \in Applied, UpdateUserPassword(r, end)
      PROVE  AccountsInv'
  <2>1. CASE hash[req[r].user] = req[r].seen
    BY <1>7, <2>1, WriteKeeps, Zenon DEF UpdateUserPassword
  <2>2. CASE hash[req[r].user] # req[r].seen
    BY <1>7, <2>2, QuietKeeps, Zenon DEF UpdateUserPassword
  <2>3. QED
    BY <2>1, <2>2, Zenon
<1>8. ASSUME NEW r \in Requests, NEW end \in Applied, UpdateNicknameByID(r, end)
      PROVE  AccountsInv'
  BY <1>8, WriteKeeps, Zenon DEF UpdateNicknameByID
<1>9. ASSUME NEW u \in Users, TokenExpires(u)
      PROVE  AccountsInv'
  BY <1>9
  DEF TokenExpires, accountVars, AccountsInv, TypeOK, RegisteredWhole, Made, Sound, Held
<1>10. QED
  BY <1>1, <1>2, <1>3, <1>4, <1>5, <1>6, <1>7, <1>8, <1>9, CreateUserKeeps, CommitUserKeeps,
     Zenon DEF Next

LEMMA InvAlways == Spec => []AccountsInv
BY InvStart, InvStep, PTL DEF Spec

(* Every account has its role and was made by exactly one request, and a   *)
(* token names an account, however the transactions of Register interleave *)
(* with logins and fail.                                                   *)
THEOREM AccountsWhole == Spec => []RegisteredWhole
<1>1. AccountsInv => RegisteredWhole
  BY Zenon DEF AccountsInv
<1>2. QED
  BY <1>1, InvAlways, PTL

(* UpdateUserPassword replaces a hash only for a request that knew the     *)
(* password in it, and nothing else replaces one.                          *)
THEOREM PasswordsChained == Spec => ChangeNeedsCurrent
<1> DEFINE Changed(u) ==
      \E r \in Requests :
         /\ req[r].op = "password" /\ req[r].user = u
         /\ req[r].given = hash[u][1]
         /\ req[r].pc \notin Applied /\ req'[r].pc \in Applied
         /\ hash'[u] = <<req[r].wanted, r>>
<1>1. ASSUME AccountsInv, Next, NEW u \in role, hash'[u] # hash[u]
      PROVE  Changed(u)
  <2>1. u \in Users /\ hash[u] # NoHash /\ hash[u] \in Hash
    BY <1>1, Zenon DEF AccountsInv, RegisteredWhole, TypeOK
  <2>2. PICK r \in Requests, end \in Applied : CommitUser(r, end) \/ UpdateUserPassword(r, end)
    BY <1>1, Zenon DEF Next, Register, Login, UpdatePassword, UpdateNickname, CreateUser,
                CreateUserRole, UpdateLastLogin, loadRoles, GenerateAccessToken,
                TokenExpires, UpdateNicknameByID, Fail, accountVars
  <2>3. ~CommitUser(r, end)
    <3>1. SUFFICES ASSUME CommitUser(r, end) PROVE FALSE
      BY Zenon
    <3>2. /\ req[r].user \in Users /\ inserting[req[r].user] = r
          /\ hash[req[r].user] = NoHash
      BY <1>1, <3>1, AccountsAssumption DEF CommitUser, AccountsInv, Sound, Held
    <3>3. hash' = [hash EXCEPT ![req[r].user] = <<req[r].given, r>>]
      BY <3>1, Zenon DEF CommitUser
    <3>4. QED
      BY <1>1, <2>1, <3>2, <3>3, Zenon DEF AccountsInv, TypeOK
  <2>4. /\ req[r].pc = "hashing" /\ hash[req[r].user] = req[r].seen
        /\ Goto(r, end)
        /\ hash' = [hash EXCEPT ![req[r].user] = <<req[r].wanted, r>>]
    BY <1>1, <2>2, <2>3, Zenon DEF UpdateUserPassword
  <2>5. req[r].user = u
    BY <1>1, <2>1, <2>4, Zenon DEF AccountsInv, TypeOK
  <2>6. /\ req[r].op = "password" /\ req[r].given = hash[u][1]
        /\ hash'[u] = <<req[r].wanted, r>>
    BY <1>1, <2>1, <2>4, <2>5, Zenon DEF AccountsInv, Sound, TypeOK
  <2>7. req'[r].pc = end
    BY <1>1, <2>4, GotoFields, Zenon DEF AccountsInv
  <2>8. QED
    BY <2>4, <2>5, <2>6, <2>7, Zenon DEF Applied
<1>2. AccountsInv /\ [Next]_vars => [\A u \in role : hash'[u] # hash[u] => Changed(u)]_vars
  BY <1>1, Zenon
<1>3. QED
  BY <1>2, InvAlways, PTL DEF Spec, ChangeNeedsCurrent

-----------------------------------------------------------------------------
(* A password that a request is about to store has passed validatePassword. *)
Checked(r) ==
  /\ req[r].pc \in {"hashed", "inserted", "granted"} => req[r].given \notin Short
  /\ req[r].pc = "hashing" => req[r].wanted \notin Short

(* The inductive invariant behind ChangesAreKept.                          *)
KeptInv ==
  /\ last \in [Users -> [password : Passwords \cup {NoName}, nickname : Users \cup Nicknames]]
  /\ \A u \in Users : nickname[u] = last[u].nickname
  /\ \A u \in role : hash[u][1] = last[u].password /\ hash[u][1] \notin Short
  /\ \A r \in Requests : Checked(r)

(* A step of one request is recorded for that request.                     *)
LEMMA EndedStep ==
  ASSUME RecordedNext, NEW r \in Requests, \A q \in Requests \ {r} : req'[q] = req[q]
  PROVE  last' = IF req[r].pc \notin Applied /\ req'[r].pc \in Applied THEN Set(r) ELSE last
<1>1. CASE req[r].pc \notin Applied /\ req'[r].pc \in Applied
  <2>1. Ended = {r}
    <3>1. \A q \in Requests : q \in Ended <=> q = r
      BY <1>1, Zenon DEF Ended
    <3>2. Ended \subseteq Requests
      BY Zenon DEF Ended
    <3>3. QED
      BY <3>1, <3>2, Zenon
  <2>2. (CHOOSE q \in Ended : TRUE) = r
    BY <2>1
  <2>3. QED
    BY <1>1, <2>1, <2>2 DEF RecordedNext
<1>2. CASE ~(req[r].pc \notin Applied /\ req'[r].pc \in Applied)
  <2>1. Ended = {}
    BY <1>2, Zenon DEF Ended
  <2>2. QED
    BY <1>2, <2>1, Zenon DEF RecordedNext
<1>3. QED
  BY <1>1, <1>2, Zenon

(* A step that writes no account and is not the end of a write.            *)
LEMMA KeptQuietly ==
  ASSUME KeptInv, UNCHANGED <<hash, nickname, role, last>>,
         NEW r \in Requests, Checked(r)', \A q \in Requests \ {r} : req'[q] = req[q]
  PROVE  KeptInv'
<1>1. \A q \in Requests : Checked(q)'
  BY Zenon DEF KeptInv, Checked
<1>2. QED
  BY <1>1, Zenon DEF KeptInv

(* The three writes of an account.                                         *)
LEMMA KeptPassword ==
  ASSUME TypeOK, KeptInv, NEW r \in Requests, NEW u \in Users, NEW p \in Passwords \ Short,
         last' = [last EXCEPT ![u].password = p],
         hash' = [hash EXCEPT ![u] = <<p, r>>],
         UNCHANGED nickname, role' \subseteq role \cup {u},
         req'[r].pc \in Applied, \A q \in Requests \ {r} : req'[q] = req[q]
  PROVE  KeptInv'
<1>1. last[u] \in [password : Passwords \cup {NoName}, nickname : Users \cup Nicknames]
  BY Zenon DEF KeptInv
<1>2. /\ last' \in [Users -> [password : Passwords \cup {NoName}, nickname : Users \cup Nicknames]]
      /\ last'[u].password = p /\ last'[u].nickname = last[u].nickname
      /\ \A v \in Users \ {u} : last'[v] = last[v]
  BY <1>1 DEF KeptInv
<1>3. hash'[u][1] = p /\ \A v \in Users \ {u} : hash'[v] = hash[v]
  BY DEF TypeOK
<1>4. \A v \in role' : hash'[v][1] = last'[v].password /\ hash'[v][1] \notin Short
  <2> SUFFICES ASSUME NEW v \in role'
               PROVE  hash'[v][1] = last'[v].password /\ hash'[v][1] \notin Short
    BY Zenon
  <2>1. CASE v = u
    BY <1>2, <1>3, <2>1
  <2>2. CASE v # u
    <3>1. v \in role /\ v \in Users
      BY <2>2 DEF TypeOK
    <3>2. last'[v] = last[v] /\ hash'[v] = hash[v]
      BY <1>2, <1>3, <2>2, <3>1, Zenon
    <3>3. hash[v][1] = last[v].password /\ hash[v][1] \notin Short
      BY <3>1, Zenon DEF KeptInv
    <3>4. QED
      BY <3>2, <3>3, Zenon
  <2>3. QED
    BY <2>1, <2>2, Zenon
<1>5. \A v \in Users : nickname'[v] = last'[v].nickname
  BY <1>2, Zenon DEF KeptInv
<1>6. \A q \in Requests : Checked(q)'
  BY Zenon DEF KeptInv, Checked, Applied
<1>7. QED
  BY <1>2, <1>4, <1>5, <1>6, Zenon DEF KeptInv

LEMMA KeptNickname ==
  ASSUME TypeOK, KeptInv, NEW r \in Requests, NEW u \in Users, NEW name \in Nicknames,
         last' = [last EXCEPT ![u].nickname = name],
         nickname' = [nickname EXCEPT ![u] = name],
         UNCHANGED <<hash, role>>,
         req'[r].pc \in Applied, \A q \in Requests \ {r} : req'[q] = req[q]
  PROVE  KeptInv'
<1>1. last[u] \in [password : Passwords \cup {NoName}, nickname : Users \cup Nicknames]
  BY Zenon DEF KeptInv
<1>2. /\ last' \in [Users -> [password : Passwords \cup {NoName}, nickname : Users \cup Nicknames]]
      /\ last'[u].password = last[u].password /\ last'[u].nickname = name
      /\ \A v \in Users \ {u} : last'[v] = last[v]
  BY <1>1 DEF KeptInv
<1>3. nickname'[u] = name /\ \A v \in Users \ {u} : nickname'[v] = nickname[v]
  BY DEF TypeOK
<1>4. \A v \in Users : nickname'[v] = last'[v].nickname /\ last'[v].password = last[v].password
  BY <1>2, <1>3, Zenon DEF KeptInv
<1>5. \A v \in role : hash'[v][1] = last'[v].password /\ hash'[v][1] \notin Short
  BY <1>4, Zenon DEF KeptInv, TypeOK
<1>6. \A q \in Requests : Checked(q)'
  BY Zenon DEF KeptInv, Checked, Applied
<1>7. QED
  BY <1>2, <1>4, <1>5, <1>6, Zenon DEF KeptInv

LEMMA KeptStep == AccountsInv /\ KeptInv /\ [RecordedNext]_<<vars, last>> => KeptInv'
<1> SUFFICES ASSUME AccountsInv, KeptInv, [RecordedNext]_<<vars, last>> PROVE KeptInv'
  BY Zenon
<1>1. TypeOK
  BY Zenon DEF AccountsInv
<1>2. CASE UNCHANGED <<vars, last>>
  BY <1>2, Zenon DEF vars, accountVars, KeptInv, Checked
<1> SUFFICES ASSUME RecordedNext PROVE KeptInv'
  BY <1>2, Zenon
<1>3. ASSUME NEW r \in Requests, NEW op, NEW u, NEW given, NEW wanted, NEW seen,
             NEW pc \in {"refused", "hashed", "touch", "hashing", "found"},
             Start(r, op, u, given, wanted, seen, pc), UNCHANGED accountVars,
             pc = "hashed" => given \notin Short, pc = "hashing" => wanted \notin Short
      PROVE  KeptInv'
  <2>1. /\ req[r].pc = "new"
        /\ req'[r].pc = pc /\ req'[r].op = op /\ req'[r].user = u
        /\ req'[r].given = given /\ req'[r].wanted = wanted /\ req'[r].seen = seen
        /\ \A q \in Requests \ {r} : req'[q] = req[q]
    BY <1>1, <1>3, StartFields, Zenon
  <2>2. last' = last
    BY <2>1, EndedStep, Zenon DEF Applied
  <2>3. Checked(r)'
    BY <1>3, <2>1, Zenon DEF Checked
  <2>4. QED
    BY <1>3, <2>1, <2>2, <2>3, KeptQuietly, Zenon DEF accountVars
<1>4. ASSUME NEW r \in Requests,
             NEW pc \in {"taken", "inserted", "granted", "roles", "token", "ok", "conflict",
                         "failed"},
             Goto(r, pc), UNCHANGED <<hash, nickname, role>>,
             pc = "inserted" => req[r].pc = "hashed",
             pc = "granted" => req[r].pc = "inserted",
             pc = "ok" => req[r].op = "login"
      PROVE  KeptInv'
  <2>1. /\ req'[r].pc = pc /\ req'[r].given = req[r].given /\ req'[r].wanted = req[r].wanted
        /\ \A q \in Requests \ {r} : req'[q] = req[q]
    BY <1>1, <1>4, GotoFields, Zenon
  <2>2. last' = last
    <3>1. req[r].op = "login" => Set(r) = last
      BY DEF Set
    <3>2. QED
      BY <1>4, <2>1, <3>1, EndedStep, Zenon DEF Applied
  <2>3. Checked(r)'
    BY <1>4, <2>1, Zenon DEF KeptInv, Checked
  <2>4. QED
    BY <1>4, <2>1, <2>2, <2>3, KeptQuietly, Zenon
<1>5. ASSUME NEW r \in Requests, NEW end \in Applied, Goto(r, end), req[r].pc \notin Applied
      PROVE  /\ last' = Set(r) /\ req'[r].pc \in Applied
             /\ \A q \in Requests \ {r} : req'[q] = req[q]
  <2>1. req'[r].pc = end /\ \A q \in Requests \ {r} : req'[q] = req[q]
    BY <1>1, <1>5, GotoFields, Zenon
  <2>2. QED
    BY <1>5, <2>1, EndedStep, Zenon
<1>6. ASSUME NEW r \in Requests, NEW u \in Users, NEW p \in Passwords, Register(r, u, p)
      PROVE  KeptInv'
  <2>1. PICK pc \in {"refused", "hashed"} :
          Start(r, "register", u, p, NoName, NoHash, pc) /\ (pc = "hashed" => p \notin Short)
    BY <1>6, Zenon DEF Register
  <2>2. QED
    BY <1>3, <1>6, <2>1, Zenon DEF Register
<1>7. ASSUME NEW r \in Requests, NEW u \in Users, NEW p \in Passwords, Login(r, u, p)
      PROVE  KeptInv'
  <2>1. PICK pc \in {"refused", "touch"} : Start(r, "login", u, p, NoName, hash[u], pc)
    BY <1>7, Zenon DEF Login
  <2>2. QED
    BY <1>3, <1>7, <2>1, Zenon DEF Login
<1>8. ASSUME NEW r \in Requests, NEW u \in Users,
             NEW old \in Passwords, NEW new \in Passwords, UpdatePassword(r, u, old, new)
      PROVE  KeptInv'
  <2>1. PICK pc \in {"refused", "hashing"} :
          Start(r, "password", u, old, new, hash[u], pc) /\ (pc = "hashing" => new \notin Short)
    BY <1>8, Zenon DEF UpdatePassword
  <2>2. QED
    BY <1>3, <1>8, <2>1, Zenon DEF UpdatePassword
<1>9. ASSUME NEW r \in Requests, NEW u \in Users, NEW name \in Nicknames,
             UpdateNickname(r, u, name)
      PROVE  KeptInv'
  <2>1. PICK pc \in {"refused", "found"} : Start(r, "nickname", u, NoName, name, hash[u], pc)
    BY <1>9, Zenon DEF UpdateNickname
  <2>2. QED
    BY <1>3, <1>9, <2>1, Zenon DEF UpdateNickname
<1>10. ASSUME NEW r \in Requests,
              \/ CreateUser(r) \/ CreateUserRole(r) \/ UpdateLastLogin(r) \/ loadRoles(r)
              \/ GenerateAccessToken(r) \/ Fail(r)
       PROVE  KeptInv'
  <2>1. req[r].pc = "token" => req[r].op = "login"
    BY Zenon DEF AccountsInv, Sound
  <2>2. QED
    BY <1>4, <1>10, <2>1, Zenon DEF CreateUser, CreateUserRole, UpdateLastLogin, loadRoles,
       GenerateAccessToken, Fail, accountVars
<1>11. ASSUME NEW r \in Requests, NEW end \in Applied, CommitUser(r, end)
       PROVE  KeptInv'
  <2>1. /\ req[r].pc = "granted" /\ req[r].op = "register" /\ req[r].user \in Users
        /\ req[r].given \in Passwords \ Short
    BY <1>11, Zenon DEF CommitUser, AccountsInv, Sound, KeptInv, Checked
  <2>2. PICK u \in Users : u = req[r].user
    BY <2>1, Zenon
  <2>3. /\ last' = Set(r) /\ req'[r].pc \in Applied
        /\ \A q \in Requests \ {r} : req'[q] = req[q]
    BY <1>5, <1>11, <2>1, Zenon DEF CommitUser, Applied
  <2>4. last' = [last EXCEPT ![u].password = req[r].given]
    BY <2>1, <2>2, <2>3 DEF Set
  <2>5. /\ hash' = [hash EXCEPT ![u] = <<req[r].given, r>>]
        /\ role' \subseteq role \cup {u} /\ UNCHANGED nickname
    BY <1>11, <2>2, Zenon DEF CommitUser
  <2>6. QED
    BY <1>1, <2>1, <2>3, <2>4, <2>5, KeptPassword, Zenon
<1>12. ASSUME NEW r \in Requests, NEW end \in Applied, UpdateUserPassword(r, end)
       PROVE  KeptInv'
  <2>1. CASE hash[req[r].user] = req[r].seen
    <3>1. /\ req[r].pc = "hashing" /\ req[r].op = "password" /\ req[r].user \in role
          /\ req[r].wanted \in Passwords \ Short
      BY <1>12, Zenon DEF UpdateUserPassword, AccountsInv, Sound, KeptInv, Checked
    <3>2. PICK u \in Users : u = req[r].user
      BY <1>1, <3>1, Zenon DEF TypeOK
    <3>3. /\ last' = Set(r) /\ req'[r].pc \in Applied
          /\ \A q \in Requests \ {r} : req'[q] = req[q]
      BY <1>5, <1>12, <2>1, <3>1, Zenon DEF UpdateUserPassword, Applied
    <3>4. last' = [last EXCEPT ![u].password = req[r].wanted]
      BY <3>1, <3>2, <3>3 DEF Set
    <3>5. /\ hash' = [hash EXCEPT ![u] = <<req[r].wanted, r>>]
          /\ role' \subseteq role \cup {u} /\ UNCHANGED nickname
      BY <1>12, <2>1, <3>2, Zenon DEF UpdateUserPassword
    <3>6. QED
      BY <1>1, <3>1, <3>3, <3>4, <3>5, KeptPassword, Zenon
  <2>2. CASE hash[req[r].user] # req[r].seen
    BY <1>4, <1>12, <2>2, Zenon DEF UpdateUserPassword
  <2>3. QED
    BY <2>1, <2>2, Zenon
<1>13. ASSUME NEW r \in Requests, NEW end \in Applied, UpdateNicknameByID(r, end)
       PROVE  KeptInv'
  <2>1. /\ req[r].pc = "found" /\ req[r].op = "nickname" /\ req[r].user \in Users
        /\ req[r].wanted \in Nicknames
    BY <1>13, Zenon DEF UpdateNicknameByID, AccountsInv, Sound
  <2>2. PICK u \in Users : u = req[r].user
    BY <2>1, Zenon
  <2>3. /\ last' = Set(r) /\ req'[r].pc \in Applied
        /\ \A q \in Requests \ {r} : req'[q] = req[q]
    BY <1>5, <1>13, <2>1, Zenon DEF UpdateNicknameByID, Applied
  <2>4. last' = [last EXCEPT ![u].nickname = req[r].wanted]
    BY <2>1, <2>2, <2>3 DEF Set
  <2>5. nickname' = [nickname EXCEPT ![u] = req[r].wanted] /\ UNCHANGED <<hash, role>>
    BY <1>13, <2>2, Zenon DEF UpdateNicknameByID
  <2>6. QED
    BY <1>1, <2>1, <2>3, <2>4, <2>5, KeptNickname, Zenon
<1>14. ASSUME NEW u \in Users, TokenExpires(u)
       PROVE  KeptInv'
  <2>1. Ended = {}
    BY <1>14, Zenon DEF TokenExpires, Ended
  <2>2. last' = last
    BY <2>1, Zenon DEF RecordedNext
  <2>3. QED
    BY <1>14, <2>2, Zenon DEF TokenExpires, accountVars, KeptInv, Checked
<1>15. Next
  BY Zenon DEF RecordedNext
<1>16. QED
  BY <1>6, <1>7, <1>8, <1>9, <1>10, <1>11, <1>12, <1>13, <1>14, <1>15, Zenon DEF Next

(* The last committed write of each column is what the row has: Login,     *)
(* UpdatePassword and UpdateNickname read rows and write them later, and   *)
(* none writes a column back that it did not mean to change.               *)
THEOREM WritesAreKept == Recorded => []ChangesAreKept
<1>1. RecordedInit => AccountsInv /\ KeptInv
  <2> SUFFICES ASSUME RecordedInit PROVE AccountsInv /\ KeptInv
    BY Zenon
  <2>1. Init
    BY Zenon DEF RecordedInit
  <2>2. \A r \in Requests : Checked(r)
    BY <2>1, Zenon DEF Init, Checked
  <2>3. \A u \in Users : nickname[u] = u
    BY <2>1, Zenon DEF Init
  <2>4. last \in [Users -> [password : Passwords \cup {NoName}, nickname : Users \cup Nicknames]]
    BY DEF RecordedInit
  <2>5. role = {}
    BY <2>1, Zenon DEF Init
  <2>6. \A u \in Users : last[u].nickname = u
    BY Zenon DEF RecordedInit
  <2>7. QED
    BY <2>1, <2>2, <2>3, <2>4, <2>5, <2>6, InvStart, Zenon DEF KeptInv
<1>2. AccountsInv /\ [RecordedNext]_<<vars, last>> => AccountsInv'
  <2>1. [RecordedNext]_<<vars, last>> => [Next]_vars
    BY Zenon DEF RecordedNext
  <2>2. QED
    BY <2>1, InvStep, Zenon
<1>3. AccountsInv /\ KeptInv => ChangesAreKept
  BY Zenon DEF AccountsInv, TypeOK, KeptInv, ChangesAreKept
<1>4. QED
  BY <1>1, <1>2, <1>3, KeptStep, PTL DEF Recorded

-----------------------------------------------------------------------------
(* Requests past their query and commands that store something are about a *)
(* row that exists, since rows are never deleted.                          *)
RowsExist ==
  /\ \A g \in Goroutines :
       goroutine[g].pc \in {"store", "update", "invalidate"} =>
         status[goroutine[g].product] # "none"
  /\ \A c \in late : c.value # "none" => status[c.product] # "none"

CacheInv == CacheTypeOK /\ RowsExist /\ StaleHasCause

(* The invariant holds of an empty database and cache.                     *)
LEMMA InitCache == CacheInit => CacheInv
  BY SMTT(30) DEF CacheInit, CacheInv, CacheTypeOK, RowsExist, StaleHasCause, Stale, Idle, Statuses

(* Every step of the product service, of Redis and of the clock keeps it.  *)
LEMMA NextCache == CacheInv /\ [CacheNext]_cacheVars => CacheInv'
<1> SUFFICES ASSUME CacheInv, [CacheNext]_cacheVars PROVE CacheInv'
    BY Zenon
<1> USE DEF CacheInv, CacheTypeOK, RowsExist, StaleHasCause, Stale, Statuses, Active, Idle
<1>1. ASSUME NEW p \in Products, CreateProduct(p) PROVE CacheInv'
      BY <1>1 DEF CreateProduct, Commands
<1>2. ASSUME NEW p \in Products, Expire(p) PROVE CacheInv'
      BY <1>2 DEF Expire, Put
<1>3. ASSUME NEW g \in Goroutines, NEW op \in Statuses \cup {"get"}, NEW p \in Products,
             Begin(g, op, p)
      PROVE  CacheInv'
      BY <1>3 DEF Begin
<1>4. ASSUME NEW g \in Goroutines, Lookup(g) PROVE CacheInv'
      BY <1>4 DEF Lookup, Continue, End
<1>5. ASSUME NEW g \in Goroutines, Load(g) PROVE CacheInv'
      BY <1>5 DEF Load, Continue, End
<1>6. ASSUME NEW g \in Goroutines, Store(g) PROVE CacheInv'
      BY <1>6 DEF Store, Answered, TimedOut, Refused, Put, End, Commands
<1>7. ASSUME NEW g \in Goroutines, Check(g) PROVE CacheInv'
      BY <1>7 DEF Check, Continue, End
<1>8. ASSUME NEW g \in Goroutines, Update(g) PROVE CacheInv'
      BY <1>8 DEF Update, Leave, Continue, End, Commands
<1>9. ASSUME NEW g \in Goroutines, Invalidate(g) PROVE CacheInv'
      BY <1>9 DEF Invalidate, Answered, TimedOut, Refused, Put, Leave, End, Commands
<1>10. ASSUME NEW g \in Goroutines, Crash(g) PROVE CacheInv'
       BY <1>10 DEF Crash, Leave, End
<1>11. ASSUME NEW c \in Commands, ServeLate(c) PROVE CacheInv'
       BY <1>11 DEF ServeLate, Put, Commands
<1>12. CASE UNCHANGED cacheVars
       BY <1>12, ZenonT(30) DEF cacheVars
<1> QED
    BY <1>1, <1>2, <1>3, <1>4, <1>5, <1>6, <1>7, <1>8, <1>9, <1>10, <1>11, <1>12, Zenon
       DEF CacheNext, Work

(* Types hold, and nothing is cached of a product that does not exist.     *)
THEOREM CacheTypeCorrect == CacheSpec => []CacheTypeOK
<1> QED BY InitCache, NextCache, PTL DEF CacheSpec, CacheInv

(* However many requests run at once, an entry of the cache is stale only  *)
(* while its writer is about to delete it, after its reader was overtaken, *)
(* or after a deletion failed.                                             *)
THEOREM StaleExplained == CacheSpec => []StaleHasCause
<1> QED BY InitCache, NextCache, PTL DEF CacheSpec, CacheInv
=============================================================================
