--------------------------- MODULE AccountsHistory ---------------------------
(***************************************************************************)
(* Accounts with a history variable: the password and the nickname that    *)
(* the last committed write of each account set.                           *)
(***************************************************************************)
EXTENDS Accounts

VARIABLE last

RecordedInit ==
  /\ Init
  /\ last = [u \in Users |-> [password |-> NoName, nickname |-> u]]

(* The requests that end well in this step.                                *)
Ended == {r \in Requests : req[r].pc \notin Applied /\ req'[r].pc \in Applied}

Set(r) ==
  LET u == req[r].user
  IN  CASE req[r].op = "register" -> [last EXCEPT ![u].password = req[r].given]
        [] req[r].op = "password" -> [last EXCEPT ![u].password = req[r].wanted]
        [] req[r].op = "nickname" -> [last EXCEPT ![u].nickname = req[r].wanted]
        [] OTHER -> last

RecordedNext ==
  /\ Next
  /\ last' = IF Ended = {} THEN last ELSE Set(CHOOSE r \in Ended : TRUE)

Recorded == RecordedInit /\ [][RecordedNext]_<<vars, last>>

(* The password and the nickname of an account are those of the last write *)
(* that was committed for it, and the password is one that validatePassword *)
(* lets through: no login, and no change of the other column, writes back  *)
(* what it read before.                                                    *)
ChangesAreKept ==
  \A u \in role : /\ hash[u][1] = last[u].password /\ hash[u][1] \notin Short
                  /\ nickname[u] = last[u].nickname
=============================================================================
