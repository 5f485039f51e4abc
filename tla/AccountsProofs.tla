--------------------------- MODULE AccountsProofs ---------------------------
(* Proofs about Accounts, for any sets of ids, logins, e-mails, codes and   *)
(* requests, with and without crashes.                                      *)
EXTENDS Accounts, TLAPS

Request == [pc : PC, byAdmin : BOOLEAN, login : Login \cup {None},
            email : Email \cup {None}, id : Id \cup {None}, code : Code \cup {None}]
(* The tables' part of the types. *)
Tables ==
  /\ Ids \subseteq gone /\ account \in [Ids -> Row]
  /\ drawn \subseteq Code
  /\ gone \subseteq Id
  /\ mails \subseteq [to : Email, code : drawn]
  /\ used \subseteq drawn
  /\ clock \in Nat
Data == /\ Tables /\ UniqueIdentity /\ CodesNameOneAccount
        /\ MailsReachTheOwner /\ ConfirmedOwnsMailbox /\ PasswordChangedByMail

(* What a request has read, and why it still allows the request's write.    *)
Held(q) ==
  /\ q.pc \in {"emailFree", "create"} => q.login \in Login /\ q.email \in Email
  /\ q.pc \in {"getCode", "resendCheck", "resendUpdate"} => q.email \in Email
  /\ q.pc \in {"floatingMail", "mail"} =>
       /\ q.email \in Email /\ q.code \in drawn
       /\ \A i \in Ids : q.code \in CodesOf(i) => account[i].email = q.email
  /\ q.pc = "confirm" => \E m \in mails : m.to = q.email
  /\ q.pc = "recoveryUpdate" =>
       q.id \in gone /\ q.email \in Email /\ (q.id \in Ids => account[q.id].email = q.email)
  /\ q.pc = "hash" =>
       /\ q.id \in gone /\ q.code \in drawn
       /\ q.id \in Ids => [to |-> account[q.id].email, code |-> q.code] \in mails
       /\ \A i \in Ids : account[i].recovery = q.code => i = q.id

(* The inductive invariant. *)
IInv == Data /\ superseded \subseteq Req /\ req \in [Req -> Request] /\ \A r \in Req : Held(req[r])

(* An account keeps its id and its address, and a code drawn before a step  *)
(* names no account after it that it did not name already.                  *)
Lasting ==
  /\ drawn \subseteq drawn' /\ gone \subseteq gone' /\ mails \subseteq mails'
  /\ \A i \in gone \cap Ids' : i \in Ids /\ account'[i].email = account[i].email
  /\ \A i \in Ids' : \A c \in drawn :
       /\ c \in CodesOf(i)' => i \in Ids /\ c \in CodesOf(i)
       /\ c = account'[i].recovery => i \in Ids /\ c = account[i].recovery

-----------------------------------------------------------------------------
(* A step that writes no table keeps them all. *)
LEMMA SameData ==
  ASSUME Data, UNCHANGED <<account, drawn, gone, mails, clock>>, used' \subseteq used
  PROVE  Data' /\ Lasting
BY DEF Data, Tables, UniqueIdentity, CodesNameOneAccount, MailsReachTheOwner, ConfirmedOwnsMailbox,
       PasswordChangedByMail, Lasting, CodesOf, Ids

(* An update of an account that keeps its identity: its codes are old ones  *)
(* of its own, or drawn by this very step and for it alone.                 *)
LEMMA UpdateData ==
  ASSUME Data, Ids' = Ids, account' \in [Ids -> Row], UNCHANGED <<gone, mails, clock>>,
         drawn \subseteq drawn', drawn' \subseteq Code, used' \subseteq drawn',
         \A i \in Ids :
           /\ account'[i].login = account[i].login /\ account'[i].email = account[i].email
           /\ account'[i].code = account[i].code \/ account'[i].code \in drawn' \ drawn
           /\ \/ account'[i].recovery = account[i].recovery \/ account'[i].recovery = None
              \/ account'[i].recovery \in drawn' \ drawn
           /\ account'[i].code # account'[i].recovery,
         ConfirmedOwnsMailbox', PasswordChangedByMail',
         \A i, j \in Ids, c \in drawn' \ drawn :
           c \in {account'[i].code, account'[i].recovery} /\ c \in {account'[j].code, account'[j].recovery}
             => i = j
  PROVE  Data' /\ Lasting
<1>0. None \notin Code
  BY NoneAssumption
<1>1. Tables'
  BY DEF Data, Tables, Ids
<1>2. UniqueIdentity'
  BY DEF Data, UniqueIdentity
<1>3. \A i \in Ids : \A c \in CodesOf(i)' : c \in CodesOf(i) \/ c \in drawn' \ drawn
  BY DEF CodesOf
<1>4. \A i \in Ids : CodesOf(i) \subseteq drawn
  BY DEF Data, CodesNameOneAccount
<1>5. CodesNameOneAccount'
  <2>1. ASSUME NEW i \in Ids, NEW j \in Ids, NEW c, c \in CodesOf(i)', c \in CodesOf(j)' PROVE i = j
    <3>1. CASE c \in drawn
      BY <1>3, <2>1, <3>1 DEF Data, CodesNameOneAccount
    <3>2. CASE c \notin drawn
      <4>1. c \in drawn' \ drawn
        BY <1>3, <1>4, <2>1, <3>2
      <4> QED
        BY <2>1, <4>1 DEF CodesOf
    <3> QED
      BY <3>1, <3>2
  <2>2. ASSUME NEW i \in Ids PROVE CodesOf(i)' \subseteq drawn' /\ account'[i].code # account'[i].recovery
    BY <1>3, <1>4
  <2> QED
    BY <2>1, <2>2 DEF CodesNameOneAccount
<1>6. MailsReachTheOwner'
  <2>1. \A m \in mails : m.code \in drawn
    BY DEF Data, Tables
  <2> QED
    BY <1>3, <2>1 DEF Data, MailsReachTheOwner
<1>7. Lasting
  <2>1. \A i \in Ids : \A c \in drawn : c \in CodesOf(i)' => c \in CodesOf(i)
    BY <1>3
  <2>2. \A i \in Ids : \A c \in drawn : c = account'[i].recovery => c = account[i].recovery
    BY <1>0 DEF Data, Tables
  <2> QED
    BY <2>1, <2>2 DEF Lasting
<1> QED
  BY <1>1, <1>2, <1>5, <1>6, <1>7 DEF Data

(* Every call of a handler keeps the tables consistent. *)
LEMMA DataNext ==
  ASSUME IInv, Next
  PROVE  Data' /\ Lasting
<1> DEFINE G == Data' /\ Lasting
<1>0. None \notin Code /\ None \notin Id /\ CodeTTL \in Nat
  BY NoneAssumption, TimeAssumption
<1>1. /\ account \in [Ids -> Row] /\ clock \in Nat /\ gone \subseteq Id /\ drawn \subseteq Code
      /\ used \subseteq drawn /\ Ids \subseteq gone /\ mails \subseteq [to : Email, code : drawn]
      /\ \A r \in Req : Held(req[r]) /\ req[r] \in Request
  BY DEF IInv, Data, Tables
<1>2. \A i \in Ids : /\ account[i].code # account[i].recovery
                    /\ account[i].code \in drawn /\ account[i].recovery \in drawn \cup {None}
  BY <1>0, <1>1 DEF IInv, Data, CodesNameOneAccount, CodesOf, Row
<1>a. ConfirmedOwnsMailbox /\ PasswordChangedByMail
  BY DEF IInv, Data
<1>3. ASSUME NEW r \in Req, NEW i \in Id, NEW c \in Code, CreateUser(r, i, c) PROVE G
  <2> DEFINE row == [login |-> req[r].login, email |-> req[r].email, password |-> None, confirmed |-> FALSE,
              code |-> c, exp |-> clock + CodeTTL, recovery |-> None, recoveryExp |-> 0]
  <2>1. req[r].login \in Login /\ req[r].email \in Email
    BY <1>1, <1>3 DEF CreateUser, Goto, Held
  <2>2. row \in Row
    BY <1>0, <1>1, <2>1 DEF Row
  <2>3. /\ Ids' = Ids \cup {i} /\ i \notin Ids /\ c \notin drawn /\ i \notin gone
        /\ account'[i] = row /\ \A j \in Ids : account'[j] = account[j]
        /\ drawn' = drawn \cup {c} /\ gone' = gone \cup {i} /\ UNCHANGED <<mails, used, clock>>
        /\ \A j \in Ids : account[j].login # row.login /\ account[j].email # row.email
    BY <1>1, <1>3 DEF CreateUser, Ids, WithLogin, WithEmail
  <2>4. account' \in [Ids' -> Row]
    BY <1>1, <1>3, <2>2 DEF CreateUser, Ids
  <2>5. Tables'
    <3>1. mails \subseteq [to : Email, code : drawn']
      BY <1>1, <2>3
    <3> QED
      BY <1>1, <2>3, <2>4, <3>1 DEF Tables
  <2>6. UniqueIdentity'
    BY <2>3 DEF IInv, Data, UniqueIdentity
  <2>7. CodesOf(i)' = {c} /\ \A j \in Ids : CodesOf(j)' = CodesOf(j)
    BY <1>0, <2>3 DEF CodesOf
  <2>8. CodesNameOneAccount'
    BY <1>0, <1>1, <2>3, <2>7 DEF IInv, Data, CodesNameOneAccount
  <2>9. MailsReachTheOwner'
    BY <1>1, <2>3, <2>7 DEF IInv, Data, MailsReachTheOwner
  <2>10. ConfirmedOwnsMailbox' /\ PasswordChangedByMail'
    BY <2>3 DEF IInv, Data, ConfirmedOwnsMailbox, PasswordChangedByMail
  <2>11. Lasting
    BY <1>0, <1>1, <2>3, <2>7 DEF Lasting
  <2> QED
    BY <2>5, <2>6, <2>8, <2>9, <2>10, <2>11 DEF Data
<1>4. ASSUME NEW r \in Req, SendMail(r) PROVE G
  <2> DEFINE m == [to |-> req[r].email, code |-> req[r].code]
  <2>1. /\ req[r].email \in Email /\ req[r].code \in drawn
        /\ \A i \in Ids : req[r].code \in CodesOf(i) => account[i].email = req[r].email
    BY <1>1, <1>4 DEF SendMail, Held
  <2>2. UNCHANGED <<account, drawn, gone, used, clock>> /\ mails' = mails \cup {m} /\ m \in [to : Email, code : drawn]
    BY <1>4, <2>1 DEF SendMail
  <2>3. Tables' /\ UniqueIdentity' /\ CodesNameOneAccount' /\ Lasting
    BY <1>1, <2>2 DEF IInv, Data, Tables, UniqueIdentity, CodesNameOneAccount, CodesOf, Lasting, Ids
  <2>4. MailsReachTheOwner'
    BY <2>1, <2>2 DEF IInv, Data, MailsReachTheOwner, CodesOf, Ids
  <2>5. ConfirmedOwnsMailbox' /\ PasswordChangedByMail'
    BY <2>2 DEF IInv, Data, ConfirmedOwnsMailbox, PasswordChangedByMail, Ids
  <2> QED
    BY <2>3, <2>4, <2>5 DEF Data
<1>5. ASSUME NEW r \in Req, ConfirmUpdate(r) PROVE G
  <2>1. \E m \in mails : m.to = req[r].email
    BY <1>1, <1>5 DEF ConfirmUpdate, Finish, Goto, Held
  <2>2. Ids' = Ids /\ UNCHANGED <<drawn, gone, mails, used, clock>> /\ account' \in [Ids -> Row]
    BY <1>1, <1>5 DEF ConfirmUpdate, Ids, Row
  <2>3. \A i \in Ids : /\ account'[i].login = account[i].login /\ account'[i].email = account[i].email
                       /\ account'[i].code = account[i].code /\ account'[i].recovery = account[i].recovery
                       /\ account'[i].password = account[i].password
    BY <1>1, <1>5 DEF ConfirmUpdate, Row
  <2>4. PasswordChangedByMail'
    BY <1>a, <2>2, <2>3 DEF PasswordChangedByMail
  <2>5. ConfirmedOwnsMailbox'
    <3>1. \A i \in Ids : account'[i] = account[i] \/ account[i].email = req[r].email
      BY <1>5 DEF ConfirmUpdate, WithEmail
    <3> QED
      BY <1>a, <2>1, <2>2, <2>3, <3>1 DEF ConfirmedOwnsMailbox
  <2> QED
    BY <1>1, <1>2, <2>2, <2>3, <2>4, <2>5, UpdateData DEF IInv
<1>6. ASSUME NEW r \in Req, NEW c \in Code, ResendUpdate(r, c) PROVE G
  <2>1. PICK i \in Ids : account' = [account EXCEPT ![i].code = c, ![i].exp = clock + CodeTTL]
    BY <1>6 DEF ResendUpdate, WithEmail
  <2>2. Ids' = Ids /\ \A j \in Ids : account'[j] =
          IF j = i THEN [account[j] EXCEPT !.code = c, !.exp = clock + CodeTTL] ELSE account[j]
    BY <1>1, <2>1 DEF Ids
  <2>3. UNCHANGED <<gone, mails, used, clock>> /\ c \notin drawn /\ drawn' = drawn \cup {c}
    BY <1>6 DEF ResendUpdate
  <2>4. account' \in [Ids -> Row]
    <3>1. clock + CodeTTL \in Nat
      BY <1>0, <1>1
    <3>2. \A j \in Ids : account'[j] \in Row
      BY <1>1, <2>2, <3>1 DEF Row
    <3>3. account' = [j \in Ids |-> account'[j]]
      BY <1>1, <2>1
    <3> QED
      BY <3>2, <3>3
  <2>5. \A j \in Ids : /\ account'[j].login = account[j].login /\ account'[j].email = account[j].email
                       /\ account'[j].password = account[j].password
                       /\ account'[j].recovery = account[j].recovery
                       /\ account'[j].code = IF j = i THEN c ELSE account[j].code
    BY <1>1, <2>2 DEF Row
  <2>6. \A j \in Ids : account'[j].confirmed = account[j].confirmed
    BY <1>1, <2>2 DEF Row
  <2>7. PasswordChangedByMail' /\ ConfirmedOwnsMailbox'
    BY <1>a, <2>2, <2>3, <2>5, <2>6 DEF PasswordChangedByMail, ConfirmedOwnsMailbox
  <2>8. \A j \in Ids : account'[j].code # account'[j].recovery
    BY <1>0, <1>2, <2>3, <2>5
  <2>9. \A j \in Ids : c \in {account'[j].code, account'[j].recovery} => j = i
    BY <1>0, <1>2, <2>3, <2>5
  <2> QED
    BY <1>1, <1>2, <2>2, <2>3, <2>4, <2>5, <2>7, <2>8, <2>9, UpdateData DEF IInv
<1>7. ASSUME NEW r \in Req, NEW c \in Code, RecoveryUpdate(r, c) PROVE G
  <2> DEFINE i == req[r].id
  <2>1. i \in Ids /\ account' = [account EXCEPT ![i].recovery = c, ![i].recoveryExp = clock + CodeTTL]
    BY <1>7 DEF RecoveryUpdate
  <2> HIDE DEF i
  <2>2. Ids' = Ids /\ \A j \in Ids : account'[j] =
          IF j = i THEN [account[j] EXCEPT !.recovery = c, !.recoveryExp = clock + CodeTTL] ELSE account[j]
    BY <1>1, <2>1 DEF Ids
  <2>3. UNCHANGED <<gone, mails, used, clock>> /\ c \notin drawn /\ drawn' = drawn \cup {c}
    BY <1>7 DEF RecoveryUpdate
  <2>4. account' \in [Ids -> Row]
    <3>1. clock + CodeTTL \in Nat
      BY <1>0, <1>1
    <3>2. \A j \in Ids : account'[j] \in Row
      BY <1>1, <2>2, <3>1 DEF Row
    <3>3. account' = [j \in Ids |-> account'[j]]
      BY <1>1, <2>1
    <3> QED
      BY <3>2, <3>3
  <2>5. \A j \in Ids : /\ account'[j].login = account[j].login /\ account'[j].email = account[j].email
                       /\ account'[j].password = account[j].password
                       /\ account'[j].code = account[j].code
                       /\ account'[j].recovery = IF j = i THEN c ELSE account[j].recovery
    BY <1>1, <2>2 DEF Row
  <2>6. \A j \in Ids : account'[j].confirmed = account[j].confirmed
    BY <1>1, <2>2 DEF Row
  <2>7. PasswordChangedByMail' /\ ConfirmedOwnsMailbox'
    BY <1>a, <2>2, <2>3, <2>5, <2>6 DEF PasswordChangedByMail, ConfirmedOwnsMailbox
  <2>8. \A j \in Ids : account'[j].code # account'[j].recovery
    BY <1>0, <1>2, <2>3, <2>5
  <2>9. \A j \in Ids : c \in {account'[j].code, account'[j].recovery} => j = i
    BY <1>0, <1>2, <2>3, <2>5
  <2> QED
    BY <1>1, <1>2, <2>2, <2>3, <2>4, <2>5, <2>7, <2>8, <2>9, UpdateData DEF IInv
<1>8. ASSUME NEW r \in Req, UpdateHash(r) PROVE G
  <2> DEFINE i == req[r].id
             k == req[r].code
  <2>1. i \in Ids /\ account' = [account EXCEPT ![i].password = k] /\ used' = used \cup {k}
        /\ UNCHANGED <<drawn, gone, mails, clock>>
    BY <1>8 DEF UpdateHash
  <2>2. [to |-> account[i].email, code |-> k] \in mails /\ k \in drawn
    BY <1>1, <1>8, <2>1 DEF UpdateHash, Goto, Held
  <2> HIDE DEF i, k
  <2>3. Ids' = Ids /\ account' \in [Ids -> Row]
    BY <1>1, <2>1, <2>2 DEF Ids, Row
  <2>4. \A j \in Ids : /\ account'[j].login = account[j].login /\ account'[j].email = account[j].email
                       /\ account'[j].code = account[j].code /\ account'[j].recovery = account[j].recovery
                       /\ account'[j].password = IF j = i THEN k ELSE account[j].password
    BY <1>1, <2>1 DEF Row
  <2>5. \A j \in Ids : account'[j].confirmed = account[j].confirmed
    BY <1>1, <2>1 DEF Row
  <2>6. PasswordChangedByMail' /\ ConfirmedOwnsMailbox'
    BY <1>a, <2>1, <2>2, <2>3, <2>4, <2>5 DEF PasswordChangedByMail, ConfirmedOwnsMailbox
  <2> QED
    BY <1>1, <1>2, <2>1, <2>2, <2>3, <2>4, <2>6, UpdateData DEF IInv
<1>9. ASSUME NEW r \in Req, ClearRecovery(r) PROVE G
  <2>1. Ids' = Ids /\ UNCHANGED <<drawn, gone, mails, used, clock>> /\ account' \in [Ids -> Row]
    BY <1>0, <1>1, <1>9 DEF ClearRecovery, Ids, Row
  <2>2. \A j \in Ids : /\ account'[j].login = account[j].login /\ account'[j].email = account[j].email
                       /\ account'[j].password = account[j].password /\ account'[j].code = account[j].code
                       /\ account'[j].recovery \in {None, account[j].recovery}
    BY <1>1, <1>9 DEF ClearRecovery, Row
  <2>3. \A j \in Ids : account'[j].confirmed = account[j].confirmed
    BY <1>1, <1>9 DEF ClearRecovery, Row
  <2>4. PasswordChangedByMail' /\ ConfirmedOwnsMailbox'
    BY <1>a, <2>1, <2>2, <2>3 DEF PasswordChangedByMail, ConfirmedOwnsMailbox
  <2>5. \A j \in Ids : account'[j].code # account'[j].recovery
    BY <1>0, <1>1, <1>2, <2>2
  <2> QED
    BY <1>1, <1>2, <2>1, <2>2, <2>4, <2>5, UpdateData DEF IInv
<1>10. ASSUME NEW r \in Req, NEW i \in Ids, DeleteUser(r, i) PROVE G
  <2>1. /\ Ids' = Ids \ {i} /\ UNCHANGED <<drawn, gone, mails, used, clock>>
        /\ \A j \in Ids' : account'[j] = account[j] /\ CodesOf(j)' = CodesOf(j)
        /\ account' \in [Ids' -> Row]
    BY <1>1, <1>10 DEF DeleteUser, Restrict, Ids, CodesOf
  <2> QED
    BY <1>1, <2>1 DEF IInv, Data, Tables, UniqueIdentity, CodesNameOneAccount, MailsReachTheOwner,
      ConfirmedOwnsMailbox, PasswordChangedByMail, Lasting
<1>11. ASSUME Tick PROVE G
  <2>1. clock' \in Nat /\ UNCHANGED <<account, drawn, gone, mails, used>>
    BY <1>1, <1>11 DEF Tick
  <2> QED
    BY <2>1 DEF IInv, Data, Tables, UniqueIdentity, CodesNameOneAccount, MailsReachTheOwner,
      ConfirmedOwnsMailbox, PasswordChangedByMail, Lasting, CodesOf, Ids
<1>12. ASSUME UNCHANGED <<account, drawn, gone, mails, clock>>, used' \subseteq used PROVE G
  BY <1>12, SameData DEF IInv
<1> HIDE DEF G
<1> QED
  BY <1>3, <1>4, <1>5, <1>6, <1>7, <1>8, <1>9, <1>10, <1>11, <1>12
  DEF Next, Act, FindByLogin, FindByEmail, CreateUserFails, GetCode, MailFails, FloatingMailFails, ConfirmFind,
      ResendFind, ResendCheck, ResendUpdateFails, RecoveryFind, RecoveryUpdateFails, NewPasswordFind,
      UpdateHashFails, Abort, G
-----------------------------------------------------------------------------
(* What a request holds survives every step of the others. *)
LEMMA HeldStable ==
  ASSUME Data, Data', Lasting, NEW q, Held(q)
  PROVE  Held(q)'
<1>1. Ids' \subseteq gone'
  BY DEF Data, Tables
<1>2. q.pc \in {"floatingMail", "mail"} => Held(q)'
  <2>1. ASSUME q.pc \in {"floatingMail", "mail"}, NEW i \in Ids', q.code \in CodesOf(i)'
        PROVE account'[i].email = q.email
    <3>1. q.code \in drawn /\ \A j \in Ids : q.code \in CodesOf(j) => account[j].email = q.email
      BY <2>1 DEF Held
    <3>2. i \in Ids /\ q.code \in CodesOf(i) /\ i \in gone
      BY <2>1, <3>1 DEF Lasting, Data, Tables
    <3> QED
      BY <3>1, <3>2 DEF Lasting
  <2> QED
    BY <2>1 DEF Held, Lasting
<1>3. q.pc = "recoveryUpdate" => Held(q)'
  <2>1. ASSUME q.pc = "recoveryUpdate" PROVE q.id \in gone /\ q.email \in Email /\ (q.id \in Ids => account[q.id].email = q.email)
    BY <2>1 DEF Held
  <2> QED
    BY <2>1 DEF Held, Lasting
<1>4. q.pc = "hash" => Held(q)'
  <2>1. ASSUME q.pc = "hash" PROVE q.id \in gone /\ q.code \in drawn
    BY <2>1 DEF Held
  <2>2. ASSUME q.pc = "hash", q.id \in Ids' PROVE [to |-> account'[q.id].email, code |-> q.code] \in mails'
    BY <2>1, <2>2 DEF Held, Lasting
  <2>3. ASSUME q.pc = "hash", NEW i \in Ids', account'[i].recovery = q.code PROVE i = q.id
    BY <2>1, <2>3 DEF Held, Lasting
  <2> QED
    BY <2>1, <2>2, <2>3 DEF Held, Lasting
<1>5. q.pc = "confirm" => Held(q)'
  BY DEF Held, Lasting
<1> QED
  BY <1>2, <1>3, <1>4, <1>5 DEF Held

(* A request that moves is answered or has just read what it holds. *)
LEMMA ReqNext ==
  ASSUME IInv, Next
  PROVE  /\ req' \in [Req -> Request]
         /\ \A s \in Req : req'[s] = req[s] \/ \E q \in Request : req'[s] = q /\ Held(q)'
<1> DEFINE G == /\ req' \in [Req -> Request]
                /\ \A s \in Req : req'[s] = req[s] \/ \E q \in Request : req'[s] = q /\ Held(q)'
           Same == UNCHANGED <<account, drawn, gone, mails>>
<1>0. /\ Idle \in Request /\ Idle.pc = "idle"
      /\ req \in [Req -> Request] /\ \A r \in Req : Held(req[r])
      /\ Tables /\ CodesNameOneAccount /\ MailsReachTheOwner
  BY DEF Idle, Request, PC, IInv, Data
<1>b. /\ account \in [Ids -> Row] /\ mails \subseteq [to : Email, code : drawn]
      /\ drawn \subseteq Code /\ gone \subseteq Id /\ Ids \subseteq gone
      /\ \A i \in Ids : account[i].email \in Email /\ account[i].code \in CodesOf(i)
  BY <1>0, NoneAssumption DEF Tables, Row, CodesOf
<1>1. ASSUME NEW r \in Req, NEW q \in Request, req' = [req EXCEPT ![r] = q], Held(q)' PROVE G
  <2>1. req' \in [Req -> Request]
    BY <1>0, <1>1
  <2>2. \A s \in Req : req'[s] = req[s] \/ req'[s] = q
    BY <1>0, <1>1
  <2> QED
    BY <1>1, <2>1, <2>2
<1>2. ASSUME NEW S \in SUBSET Req, req' = [s \in Req |-> IF s \in S THEN Idle ELSE req[s]] PROVE G
  <2>1. Held(Idle)'
    BY <1>0 DEF Held, Idle
  <2> QED
    BY <1>0, <1>2, <2>1
<1>3. ASSUME req' = req PROVE G
  BY <1>0, <1>3
<1> HIDE DEF G
<1>4. ASSUME NEW r \in Req, NEW from, Finish(r, from) PROVE G
  <2>1. Held(Idle)'
    BY DEF Held, Idle
  <2> QED
    BY <1>0, <1>1, <1>4, <2>1 DEF Finish, Goto
<1>5. ASSUME NEW r \in Req, NEW q \in Request, req' = [req EXCEPT ![r] = q], Held(q), Same PROVE G
  <2>1. Held(q)'
    BY <1>5 DEF Held, CodesOf, Ids
  <2> QED
    BY <1>1, <1>5, <2>1
<1>6. ASSUME NEW r \in Req, NEW l \in Login, NEW e \in Email, NEW admin \in BOOLEAN, FindByLogin(r, l, e, admin)
      PROVE G
  <2> DEFINE q == [Idle EXCEPT !.pc = "emailFree", !.login = l, !.email = e, !.byAdmin = admin]
  <2>1. q \in Request /\ Held(q)
    BY DEF Request, Held, Idle, PC
  <2> QED
    BY <1>5, <1>6, <2>1 DEF FindByLogin, Start
<1>7. ASSUME NEW r \in Req, FindByEmail(r) PROVE G
  <2>1. ASSUME Goto(r, "emailFree", Next1(r, "create")) PROVE G
    <3> DEFINE q == [req[r] EXCEPT !.pc = "create"]
    <3>1. q \in Request /\ Held(q)
      BY <1>0, <2>1 DEF Goto, Request, Held, PC
    <3> QED
      BY <1>5, <1>7, <2>1, <3>1 DEF FindByEmail, Goto, Next1
  <2> QED
    BY <1>4, <1>7, <2>1 DEF FindByEmail
<1>8. ASSUME NEW r \in Req, NEW i \in Id, NEW c \in Code, CreateUser(r, i, c) PROVE G
  <2>1. PICK q \in Request : q = [req[r] EXCEPT !.pc = "getCode"]
    BY <1>0 DEF Request, PC
  <2>2. Held(q)' /\ Held(Idle)'
    BY <1>0, <1>8, <2>1 DEF CreateUser, Goto, Request, Held, Idle
  <2>3. req' = [req EXCEPT ![r] = q] \/ req' = [req EXCEPT ![r] = Idle]
    BY <1>8, <2>1 DEF CreateUser, Goto, Next1
  <2> QED
    BY <1>0, <1>1, <2>2, <2>3
<1>9. ASSUME NEW r \in Req, GetCode(r) PROVE G
  <2>1. ASSUME NEW i \in WithEmail(req[r].email),
               Goto(r, "getCode", [Next1(r, "floatingMail") EXCEPT !.code = account[i].code])
        PROVE G
    <3> DEFINE q == [req[r] EXCEPT !.pc = "floatingMail", !.code = account[i].code]
    <3>1. i \in Ids /\ account[i].email = req[r].email /\ account[i].code \in drawn
      BY <1>0, <1>b, <2>1 DEF WithEmail, CodesNameOneAccount
    <3>2. q \in Request /\ q.pc = "floatingMail" /\ q.email = req[r].email /\ q.code = account[i].code
      BY <1>0, <1>b, <3>1 DEF Request, PC
    <3>3. req' = [req EXCEPT ![r] = q]
      BY <2>1 DEF Goto, Next1
    <3>4. req[r].email \in Email /\ \A j \in Ids : account[i].code \in CodesOf(j) => account[j].email = req[r].email
      BY <1>0, <1>b, <3>1 DEF CodesNameOneAccount
    <3> HIDE DEF q
    <3>5. Held(q)
      BY <3>1, <3>2, <3>4 DEF Held
    <3> QED
      BY <1>5, <1>9, <3>2, <3>3, <3>5 DEF GetCode
  <2> QED
    BY <1>4, <1>9, <2>1 DEF GetCode
<1>10. ASSUME NEW r \in Req, NEW i \in Ids, NEW c \in Mailed, ConfirmFind(r, i, c) PROVE G
  <2> DEFINE q == [Idle EXCEPT !.pc = "confirm", !.email = account[i].email, !.id = i, !.code = c]
  <2>1. PICK m \in mails : m.code = c
    BY DEF Mailed
  <2>2. m.to = account[i].email /\ c \in Code
    BY <1>0, <1>b, <1>10, <2>1 DEF ConfirmFind, MailsReachTheOwner
  <2>3. q \in Request /\ Held(q)
    BY <1>b, <2>2 DEF Request, Held, Idle, PC
  <2> QED
    BY <1>5, <1>10, <2>3 DEF ConfirmFind, Start
<1>11. ASSUME NEW r \in Req, NEW e \in Email, ResendFind(r, e) PROVE G
  <2> DEFINE q == [Idle EXCEPT !.pc = "resendCheck", !.email = e]
  <2>1. q \in Request /\ Held(q)
    BY DEF Request, Held, Idle, PC
  <2> QED
    BY <1>5, <1>11, <2>1 DEF ResendFind, Start
<1>12. ASSUME NEW r \in Req, ResendCheck(r) PROVE G
  <2>1. ASSUME Goto(r, "resendCheck", Next1(r, "resendUpdate")) PROVE G
    <3> DEFINE q == [req[r] EXCEPT !.pc = "resendUpdate"]
    <3>1. q \in Request /\ Held(q)
      BY <1>0, <2>1 DEF Goto, Request, Held, PC
    <3> QED
      BY <1>5, <1>12, <2>1, <3>1 DEF ResendCheck, Goto, Next1
  <2> QED
    BY <1>4, <1>12, <2>1 DEF ResendCheck
<1>13. ASSUME NEW r \in Req, NEW c \in Code, NEW e \in Email, NEW pc,
              Goto(r, pc, [Next1(r, "mail") EXCEPT !.code = c]), c \in drawn', req[r].email = e,
              \A i \in Ids' : c \in CodesOf(i)' => account'[i].email = e
       PROVE G
  <2>1. PICK q \in Request : q = [req[r] EXCEPT !.pc = "mail", !.code = c]
    BY <1>0 DEF Request, PC
  <2>2. q.pc = "mail" /\ q.email = e /\ q.code = c
    BY <1>0, <1>13, <2>1 DEF Request
  <2>3. Held(q)'
    BY <1>13, <2>2 DEF Held
  <2>4. req' = [req EXCEPT ![r] = q]
    BY <1>13, <2>1 DEF Goto, Next1
  <2> QED
    BY <1>1, <2>3, <2>4
<1>14. ASSUME NEW r \in Req, NEW c \in Code, ResendUpdate(r, c) PROVE G
  <2>1. PICK i \in WithEmail(req[r].email) :
          account' = [account EXCEPT ![i].code = c, ![i].exp = clock + CodeTTL]
    BY <1>14 DEF ResendUpdate
  <2>2. /\ Ids' = Ids /\ \A j \in Ids \ {i} : account'[j] = account[j]
        /\ account'[i].email = req[r].email /\ req[r].email \in Email
    BY <1>b, <2>1 DEF Ids, WithEmail, Row
  <2>3. \A j \in Ids' : c \in CodesOf(j)' => account'[j].email = req[r].email
    BY <1>0, <1>14, <2>2 DEF ResendUpdate, CodesOf, CodesNameOneAccount
  <2> QED
    BY <1>13, <1>14, <2>2, <2>3 DEF ResendUpdate
<1>15. ASSUME NEW r \in Req, NEW i \in Ids, RecoveryFind(r, i) PROVE G
  <2> DEFINE q == [Idle EXCEPT !.pc = "recoveryUpdate", !.id = i, !.email = account[i].email]
  <2>1. q \in Request /\ Held(q)
    BY <1>b DEF Request, Held, Idle, PC
  <2> QED
    BY <1>5, <1>15, <2>1 DEF RecoveryFind, Start
<1>16. ASSUME NEW r \in Req, NEW c \in Code, RecoveryUpdate(r, c) PROVE G
  <2> DEFINE i == req[r].id
  <2>0. i \in Ids /\ account' = [account EXCEPT ![i].recovery = c, ![i].recoveryExp = clock + CodeTTL]
    BY <1>16 DEF RecoveryUpdate
  <2>1. account[i].email = req[r].email /\ req[r].email \in Email
    BY <1>0, <1>16, <2>0 DEF RecoveryUpdate, Held, Goto
  <2> HIDE DEF i
  <2>2. /\ Ids' = Ids /\ \A j \in Ids \ {i} : account'[j] = account[j]
        /\ account'[i].email = req[r].email
    BY <1>b, <2>0, <2>1 DEF Ids, Row
  <2>3. \A j \in Ids' : c \in CodesOf(j)' => account'[j].email = req[r].email
    BY <1>0, <1>16, <2>2 DEF RecoveryUpdate, CodesOf, CodesNameOneAccount
  <2> QED
    BY <1>13, <1>16, <2>1, <2>3 DEF RecoveryUpdate
<1>17. ASSUME NEW r \in Req, NEW i \in Ids, NEW c \in Mailed, NewPasswordFind(r, i, c) PROVE G
  <2> DEFINE q == [Idle EXCEPT !.pc = "hash", !.id = i, !.code = c]
  <2>1. PICK m \in mails : m.code = c
    BY DEF Mailed
  <2>2. c \in drawn /\ c \in Code /\ c # None /\ account[i].recovery = c
    BY <1>b, <1>17, <2>1, NoneAssumption DEF NewPasswordFind
  <2>3. m = [to |-> account[i].email, code |-> c]
    BY <1>0, <1>b, <2>1, <2>2 DEF MailsReachTheOwner, CodesOf
  <2>4. \A j \in Ids : account[j].recovery = c => j = i
    BY <1>0, <2>2 DEF CodesNameOneAccount, CodesOf
  <2>5. q \in Request /\ q.pc = "hash" /\ q.id = i /\ q.code = c
    BY <1>b, <2>2 DEF Request, Idle, PC
  <2>6. req' = [req EXCEPT ![r] = q]
    BY <1>17 DEF NewPasswordFind, Start
  <2> HIDE DEF q
  <2>7. Held(q)
    BY <1>b, <2>1, <2>2, <2>3, <2>4, <2>5 DEF Held
  <2> QED
    BY <1>5, <1>17, <2>5, <2>6, <2>7 DEF NewPasswordFind
<1>18. ASSUME NEW r \in Req, UpdateHash(r) PROVE G
  <2>1. PICK q \in Request : q = [req[r] EXCEPT !.pc = "clear"]
    BY <1>0 DEF Request, PC
  <2>2. Held(q)'
    BY <1>0, <2>1 DEF Held, Request
  <2>3. req' = [req EXCEPT ![r] = q]
    BY <1>18, <2>1 DEF UpdateHash, Goto, Next1
  <2> QED
    BY <1>1, <2>2, <2>3
<1> QED
  BY <1>2, <1>3, <1>4, <1>6, <1>7, <1>8, <1>9, <1>10, <1>11, <1>12, <1>14, <1>15, <1>16, <1>17, <1>18
  DEF Next, Act, CreateUserFails, SendMail, MailFails, FloatingMailFails, ConfirmUpdate, ResendUpdateFails,
      RecoveryUpdateFails, UpdateHashFails, ClearRecovery, DeleteUser, Abort, Tick, G
-----------------------------------------------------------------------------
(* The empty tables satisfy the inductive invariant. *)
LEMMA InitIInv == Init => IInv
BY DEF Init, IInv, Data, Tables, UniqueIdentity, CodesNameOneAccount, MailsReachTheOwner,
   ConfirmedOwnsMailbox, PasswordChangedByMail, Held, Idle, Request, PC, Ids

(* Every step keeps the inductive invariant. *)
LEMMA NextIInv == IInv /\ [Next]_vars => IInv'
<1> SUFFICES ASSUME IInv, [Next]_vars PROVE IInv'
  OBVIOUS
<1>1. CASE UNCHANGED vars
  <2>1. Data'
    BY <1>1, SameData DEF vars, IInv
  <2>2. ASSUME NEW s \in Req PROVE Held(req[s])'
    BY <1>1 DEF vars, IInv, Held, CodesOf, Ids
  <2> QED
    BY <1>1, <2>1, <2>2 DEF vars, IInv
<1>2. CASE Next
  <2>1. Data' /\ Lasting
    BY <1>2, DataNext
  <2>2. /\ req' \in [Req -> Request]
        /\ \A s \in Req : req'[s] = req[s] \/ \E q \in Request : req'[s] = q /\ Held(q)'
    BY <1>2, ReqNext
  <2>3. ASSUME NEW s \in Req PROVE Held(req[s])'
    <3>1. PICK q \in Request : req'[s] = q /\ Held(q)'
      <4>1. CASE req'[s] = req[s]
        <5>1. PICK q \in Request : q = req[s]
          BY DEF IInv
        <5>2. Held(q)
          BY <5>1 DEF IInv
        <5>3. Held(q)'
          BY <2>1, <5>2, HeldStable DEF IInv
        <5> QED
          BY <4>1, <5>1, <5>3
      <4> QED
        BY <2>2, <4>1
    <3> QED
      BY <3>1 DEF Held
  <2> QED
    BY <1>2, <2>1, <2>2, <2>3 DEF IInv, Next, Watch, Using
<1> QED
  BY <1>1, <1>2

(* The tables and what requests hold are consistent in every state. *)
THEOREM Invariance == Spec => []IInv
BY InitIInv, NextIInv, PTL DEF Spec

(* Every variable keeps its type. *)
THEOREM TypeCorrect == Spec => []TypeOK
<1>1. IInv => TypeOK
  BY DEF IInv, Data, Tables, TypeOK, Request, Ids
<1> QED
  BY <1>1, Invariance, PTL

(* Two registrations that overlap never make two accounts of one login or   *)
(* e-mail.                                                                  *)
THEOREM OneIdentity == Spec => []UniqueIdentity
<1>1. IInv => UniqueIdentity
  BY DEF IInv, Data
<1> QED
  BY <1>1, Invariance, PTL

(* A code in the database serves one account and one purpose. *)
THEOREM OneOwner == Spec => []CodesNameOneAccount
<1>1. IInv => CodesNameOneAccount
  BY DEF IInv, Data
<1> QED
  BY <1>1, Invariance, PTL

(* No mail carries a code that works for an account with another address.   *)
THEOREM OnlyOwnersMailed == Spec => []MailsReachTheOwner
<1>1. IInv => MailsReachTheOwner
  BY DEF IInv, Data
<1> QED
  BY <1>1, Invariance, PTL

(* A confirmed account was sent a code. *)
THEOREM ConfirmedByMail == Spec => []ConfirmedOwnsMailbox
<1>1. IInv => ConfirmedOwnsMailbox
  BY DEF IInv, Data
<1> QED
  BY <1>1, Invariance, PTL

(* A replaced password was replaced with a code mailed to the account. *)
THEOREM ReplacedByMail == Spec => []PasswordChangedByMail
<1>1. IInv => PasswordChangedByMail
  BY DEF IInv, Data
<1> QED
  BY <1>1, Invariance, PTL

(* No step takes a confirmation back. *)
THEOREM ConfirmationLasts == Spec => StaysConfirmed
<1> DEFINE Lasts == \A i \in Ids \cap Ids' : account[i].confirmed => account'[i].confirmed
<1>1. ASSUME IInv, Next PROVE Lasts
  <2>0. Ids \subseteq gone /\ account \in [Ids -> Row]
    BY <1>1 DEF IInv, Data, Tables
  <2>1. ASSUME account' = account PROVE Lasts
    BY <2>1
  <2>2. ASSUME NEW r \in Req, NEW i \in Id, NEW c \in Code, CreateUser(r, i, c) PROVE Lasts
    BY <2>0, <2>2 DEF CreateUser, Ids
  <2>3. ASSUME NEW r \in Req, ConfirmUpdate(r) PROVE Lasts
    BY <2>0, <2>3 DEF ConfirmUpdate, Ids, Row
  <2>4. ASSUME NEW r \in Req, NEW c \in Code, ResendUpdate(r, c) PROVE Lasts
    BY <2>0, <2>4 DEF ResendUpdate, WithEmail, Row
  <2>5. ASSUME NEW r \in Req, NEW c \in Code, RecoveryUpdate(r, c) PROVE Lasts
    BY <2>0, <2>5 DEF RecoveryUpdate, Row
  <2>6. ASSUME NEW r \in Req, UpdateHash(r) PROVE Lasts
    BY <2>0, <2>6 DEF UpdateHash, Row
  <2>7. ASSUME NEW r \in Req, ClearRecovery(r) PROVE Lasts
    BY <2>0, <2>7 DEF ClearRecovery, Row
  <2>8. ASSUME NEW r \in Req, NEW i \in Ids, DeleteUser(r, i) PROVE Lasts
    BY <2>8 DEF DeleteUser, Restrict, Ids
  <2> HIDE DEF Lasts
  <2> QED
    BY <1>1, <2>1, <2>2, <2>3, <2>4, <2>5, <2>6, <2>7, <2>8
    DEF Next, Act, FindByLogin, FindByEmail, CreateUserFails, GetCode, SendMail, MailFails, FloatingMailFails,
        ConfirmFind, ResendFind, ResendCheck, ResendUpdateFails, RecoveryFind, RecoveryUpdateFails,
        NewPasswordFind, UpdateHashFails, Abort, Tick
<1>2. IInv /\ [Next]_vars => [Lasts]_vars
  BY <1>1
<1> QED
  BY <1>2, Invariance, PTL DEF Spec, StaysConfirmed

-----------------------------------------------------------------------------
(* A code that changed a password and still works is about to be cleared.   *)
Dead ==
  \A i \in Ids : account[i].recovery \in used =>
    \E r \in Req : req[r].pc = "clear" /\ req[r].id = i /\ req[r].code = account[i].recovery

(* Every step keeps a used code in the hands of a request that clears it.   *)
LEMMA DeadNext ==
  ASSUME IInv, Dead, Next
  PROVE  Dead'
<1> DEFINE G == Dead'
<1>1. /\ req \in [Req -> Request] /\ account \in [Ids -> Row] /\ used \subseteq drawn /\ drawn \subseteq Code
      /\ None \notin used /\ \A r \in Req : Held(req[r])
  BY NoneAssumption DEF IInv, Data, Tables
<1>2. ASSUME NEW r \in Req, NEW q, req' = [req EXCEPT ![r] = q], req[r].pc # "clear",
             \A i \in Ids' : account'[i].recovery \in used' =>
                              i \in Ids /\ account'[i].recovery = account[i].recovery /\ account[i].recovery \in used
      PROVE G
  BY <1>1, <1>2 DEF Dead
<1>b. ASSUME NEW r \in Req, NEW q, NEW from, from # "clear", Goto(r, from, q), Ids' = Ids, used' = used,
             \A i \in Ids : account'[i].recovery = account[i].recovery \/ account'[i].recovery \notin used
      PROVE G
  BY <1>2, <1>b DEF Goto
<1>3. ASSUME NEW S \in SUBSET Req, account' = account, used' = used \ ClearedBy(S),
             \A s \in Req \ S : req'[s] = req[s]
      PROVE G
  <2> SUFFICES ASSUME NEW i \in Ids, account[i].recovery \in used'
               PROVE \E s \in Req : req'[s].pc = "clear" /\ req'[s].id = i /\ req'[s].code = account[i].recovery
    BY <1>3 DEF Dead, Ids
  <2>1. PICK s \in Req : req[s].pc = "clear" /\ req[s].id = i /\ req[s].code = account[i].recovery
    BY <1>3 DEF Dead
  <2>2. s \notin S
    BY <1>3, <2>1 DEF ClearedBy
  <2> QED
    BY <1>3, <2>1, <2>2
<1>4. ASSUME NEW r \in Req, UpdateHash(r) PROVE G
  <2> DEFINE k == req[r].code
  <2>1. /\ req[r].pc = "hash" /\ req[r].id \in Ids /\ used' = used \cup {k}
        /\ account' = [account EXCEPT ![req[r].id].password = k]
        /\ req' = [req EXCEPT ![r] = [req[r] EXCEPT !.pc = "clear"]]
        /\ \A i \in Ids : account[i].recovery = k => i = req[r].id
    BY <1>1, <1>4 DEF UpdateHash, Goto, Next1, Held
  <2>2. Ids' = Ids /\ \A i \in Ids : account'[i].recovery = account[i].recovery
    BY <1>1, <2>1 DEF Ids, Row
  <2>3. req'[r].pc = "clear" /\ req'[r].id = req[r].id /\ req'[r].code = k
    BY <1>1, <2>1 DEF Request
  <2>4. \A s \in Req : req[s].pc = "clear" => req'[s] = req[s]
    BY <1>1, <2>1
  <2> SUFFICES ASSUME NEW i \in Ids, account[i].recovery \in used'
               PROVE \E s \in Req : req'[s].pc = "clear" /\ req'[s].id = i /\ req'[s].code = account[i].recovery
    BY <2>2 DEF Dead
  <2>5. CASE account[i].recovery = k
    BY <2>1, <2>3, <2>5
  <2>6. CASE account[i].recovery \in used
    BY <2>4, <2>6 DEF Dead
  <2> QED
    BY <2>1, <2>5, <2>6
<1>5. ASSUME NEW r \in Req, ClearRecovery(r) PROVE G
  <2>1. /\ Ids' = Ids /\ used' = used /\ req' = [req EXCEPT ![r] = Idle]
        /\ \A i \in Ids : IF i = req[r].id THEN account'[i].recovery = None
                            ELSE account'[i].recovery = account[i].recovery
    BY <1>1, <1>5 DEF ClearRecovery, Finish, Goto, Ids, Row
  <2> SUFFICES ASSUME NEW i \in Ids, account'[i].recovery \in used
               PROVE \E s \in Req : req'[s].pc = "clear" /\ req'[s].id = i /\ req'[s].code = account'[i].recovery
    BY <2>1 DEF Dead
  <2>2. i # req[r].id /\ account'[i].recovery = account[i].recovery
    BY <1>1, <2>1
  <2>3. PICK s \in Req : req[s].pc = "clear" /\ req[s].id = i /\ req[s].code = account[i].recovery
    BY <2>2 DEF Dead
  <2> QED
    BY <1>1, <2>1, <2>2, <2>3
<1>6. ASSUME NEW r \in Req, NEW q, NEW from, from # "clear", Goto(r, from, q), UNCHANGED <<account, used>> PROVE G
  BY <1>2, <1>6 DEF Goto, Ids
<1>7. ASSUME NEW r \in Req, NEW q, Start(r, q), UNCHANGED <<account, used>> PROVE G
  <2>1. req[r].pc # "clear" /\ req' = [req EXCEPT ![r] = q]
    BY <1>7 DEF Start, Idle
  <2> QED
    BY <1>2, <1>7, <2>1 DEF Ids
<1>8. ASSUME NEW r \in Req, NEW i \in Id, NEW c \in Code, CreateUser(r, i, c) PROVE G
  <2>1. Ids' = Ids \cup {i} /\ account'[i].recovery = None /\ \A j \in Ids \ {i} : account'[j] = account[j]
    BY <1>8 DEF CreateUser, Ids
  <2> QED
    BY <1>1, <1>2, <1>8, <2>1 DEF CreateUser, Goto
<1>9. ASSUME NEW r \in Req, ConfirmUpdate(r) PROVE G
  <2>1. Ids' = Ids /\ \A i \in Ids : account'[i].recovery = account[i].recovery
    BY <1>1, <1>9 DEF ConfirmUpdate, Ids, Row
  <2> QED
    BY <1>b, <1>9, <2>1 DEF ConfirmUpdate, Finish
<1>10. ASSUME NEW r \in Req, NEW c \in Code, ResendUpdate(r, c) PROVE G
  <2>1. Ids' = Ids /\ \A i \in Ids : account'[i].recovery = account[i].recovery
    BY <1>1, <1>10 DEF ResendUpdate, Ids, Row
  <2> QED
    BY <1>2, <1>10, <2>1 DEF ResendUpdate, Goto
<1>11. ASSUME NEW r \in Req, NEW c \in Code, RecoveryUpdate(r, c) PROVE G
  <2>1. c \notin used /\ Ids' = Ids
        /\ \A i \in Ids : account'[i].recovery \in {c, account[i].recovery}
    BY <1>1, <1>11 DEF RecoveryUpdate, Ids, Row
  <2> QED
    BY <1>b, <1>11, <2>1 DEF RecoveryUpdate
<1>12. ASSUME NEW r \in Req, NEW i \in Ids, DeleteUser(r, i) PROVE G
  BY <1>12 DEF DeleteUser, Restrict, Dead, Ids
<1>13. ASSUME Tick PROVE G
  BY <1>13 DEF Tick, Dead, Ids
<1>14. ASSUME NEW r \in Req, Abort(r) PROVE G
  BY <1>1, <1>3, <1>14 DEF Abort, Finish, Goto
<1>15. ASSUME NEW r \in Req, NEW S \in SUBSET Req, FloatingMailFails(r, S) PROVE G
  BY <1>3, <1>15 DEF FloatingMailFails
<1> HIDE DEF G
<1>16. ASSUME NEW r \in Req,
              \/ \E l \in Login, e \in Email, admin \in BOOLEAN : FindByLogin(r, l, e, admin)
              \/ \E i \in Ids, c \in Mailed : ConfirmFind(r, i, c) \/ NewPasswordFind(r, i, c)
              \/ \E e \in Email : ResendFind(r, e)
              \/ \E i \in Ids : RecoveryFind(r, i)
       PROVE G
  BY <1>7, <1>16 DEF FindByLogin, ConfirmFind, NewPasswordFind, ResendFind, RecoveryFind
<1>17. ASSUME NEW r \in Req,
              \/ FindByEmail(r) \/ CreateUserFails(r) \/ GetCode(r) \/ SendMail(r) \/ MailFails(r)
              \/ ResendCheck(r) \/ ResendUpdateFails(r) \/ RecoveryUpdateFails(r) \/ UpdateHashFails(r)
       PROVE G
  BY <1>6, <1>17 DEF Finish, FindByEmail, CreateUserFails, GetCode, SendMail, MailFails, ResendCheck,
     ResendUpdateFails, RecoveryUpdateFails, UpdateHashFails
<1> QED
  BY <1>4, <1>5, <1>8, <1>9, <1>10, <1>11, <1>12, <1>13, <1>14, <1>15, <1>16, <1>17 DEF Next, Act, G

(* A used code is in the hands of the request that clears it, always. *)
LEMMA DeadAlways == Spec => []Dead
<1>1. Init => Dead
  BY DEF Init, Dead, Ids
<1>2. IInv /\ Dead /\ [Next]_vars => Dead'
  <2>1. CASE UNCHANGED vars
    BY <2>1 DEF vars, Dead, Ids
  <2> QED
    BY <2>1, DeadNext
<1> QED
  BY <1>1, <1>2, Invariance, PTL DEF Spec

(* A code presented by several requests at once is dead when they are done. *)
THEOREM UsedDie == Spec => []UsedCodesAreDead
<1>1. Dead => UsedCodesAreDead
  BY DEF Dead, UsedCodesAreDead
<1> QED
  BY <1>1, DeadAlways, PTL

-----------------------------------------------------------------------------
(***************************************************************************)
(* The overlaps that spoil a code.  Two properties of Accounts hold of     *)
(* requests that run one at a time; the predicates below name the overlaps *)
(* that can break them, and leave every other interleaving, and every      *)
(* crash, in.                                                              *)
(***************************************************************************)
(* No resend and no registration is about to write under the e-mail a       *)
(* confirmation in flight will update by.                                   *)
NoWriteUnderConfirm ==
  \A r, s \in Req : req[r].pc = "confirm" /\ req[s].pc \in {"create", "resendUpdate"}
                    => req[r].email # req[s].email

UsePC == {"hash", "clear"}
(* No two requests use the same recovery code at once. *)
OneUse ==
  \A r, s \in Req : r # s /\ req[r].pc \in UsePC /\ req[s].pc \in UsePC => req[r].code # req[s].code

(* What a step does to the codes and flags of an account it does not remove,*)
(* and which request does it.                                               *)
RowStep ==
  /\ \A j \in Ids' :
       \/ j \in Ids /\ account'[j].email = account[j].email /\ account'[j].code = account[j].code
       \/ \E s \in Req : req[s].pc \in {"create", "resendUpdate"} /\ req[s].email = account'[j].email
  /\ \A j \in Ids' \cap gone :
       /\ j \in Ids
       /\ \/ account'[j].recovery = account[j].recovery
          \/ account'[j].recovery = None /\ \E s \in Req : req[s].pc = "clear" /\ req[s].id = j /\ req'[s] = Idle
          \/ account'[j].recovery # None
       /\ account'[j].confirmed =>
            \/ account[j].confirmed
            \/ \E s \in Req : req[s].pc = "confirm" /\ req'[s] = Idle /\ req[s].email = account[j].email
  /\ gone \subseteq gone'

(* What a step does to a request that holds a code, and to the used codes.  *)
ReadStep ==
  /\ \A r \in Req : req'[r].pc \in {"confirm"} \cup UsePC =>
       \/ req'[r] = req[r]
       \/ /\ req'[r].pc = "confirm" /\ UNCHANGED account
          /\ \E i \in Ids : req'[r].email = account[i].email /\ req'[r].code = account[i].code
       \/ /\ req'[r].pc = "hash" /\ req[r] = Idle /\ UNCHANGED <<account, used>>
          /\ req'[r].id \in Ids /\ req'[r].code = account[req'[r].id].recovery
          /\ \A s \in Req \ {r} : req'[s] = req[s]
       \/ /\ req'[r].pc = "clear" /\ req[r].pc = "hash" /\ req'[r].code \in used'
          /\ req'[r].id = req[r].id /\ req'[r].code = req[r].code
  /\ \A k \in used' \ used : \E s \in Req : req[s].pc = "hash" /\ req[s].code = k /\ req'[s] # req[s]

(* Every step does to the rows only what RowStep says. *)
LEMMA RowNext ==
  ASSUME IInv, Next
  PROVE  RowStep
<1> DEFINE G == RowStep
<1>1. /\ req \in [Req -> Request] /\ account \in [Ids -> Row] /\ Ids \subseteq gone
      /\ None \notin Code /\ \A r \in Req : Held(req[r])
  BY NoneAssumption DEF IInv, Data, Tables
<1>2. ASSUME UNCHANGED <<account, gone>> PROVE G
  BY <1>1, <1>2 DEF RowStep, Ids
<1>3. ASSUME NEW r \in Req, NEW i \in Id, NEW c \in Code, CreateUser(r, i, c) PROVE G
  <2>1. /\ req[r].pc = "create" /\ i \notin gone /\ gone' = gone \cup {i} /\ Ids' = Ids \cup {i}
        /\ account'[i].email = req[r].email /\ \A j \in Ids : account'[j] = account[j]
    BY <1>1, <1>3 DEF CreateUser, Goto, Ids
  <2> QED
    BY <2>1 DEF RowStep
<1>4. ASSUME NEW r \in Req, ConfirmUpdate(r) PROVE G
  <2>1. /\ req[r].pc = "confirm" /\ req'[r] = Idle /\ Ids' = Ids /\ gone' = gone
        /\ \A j \in Ids : /\ account'[j].email = account[j].email /\ account'[j].code = account[j].code
                          /\ account'[j].recovery = account[j].recovery
                          /\ account'[j].confirmed => account[j].confirmed \/ account[j].email = req[r].email
    BY <1>1, <1>4 DEF ConfirmUpdate, Finish, Goto, WithEmail, Ids, Row
  <2> QED
    BY <2>1 DEF RowStep
<1>5. ASSUME NEW r \in Req, NEW c \in Code, ResendUpdate(r, c) PROVE G
  <2>1. PICK i \in Ids : /\ account[i].email = req[r].email
                         /\ account' = [account EXCEPT ![i].code = c, ![i].exp = clock + CodeTTL]
    BY <1>5 DEF ResendUpdate, WithEmail
  <2>2. /\ Ids' = Ids /\ gone' = gone /\ req[r].pc = "resendUpdate"
        /\ \A j \in Ids : /\ account'[j].email = account[j].email
                          /\ account'[j].recovery = account[j].recovery
                          /\ account'[j].confirmed = account[j].confirmed
                          /\ j = i \/ account'[j].code = account[j].code
    BY <1>1, <1>5, <2>1 DEF ResendUpdate, Goto, Ids, Row
  <2> QED
    BY <2>1, <2>2 DEF RowStep
<1>6. ASSUME NEW r \in Req, NEW c \in Code, RecoveryUpdate(r, c) PROVE G
  <2>1. /\ Ids' = Ids /\ gone' = gone /\ req[r].pc = "recoveryUpdate" /\ req[r].id \in Ids
        /\ account' = [account EXCEPT ![req[r].id].recovery = c, ![req[r].id].recoveryExp = clock + CodeTTL]
    BY <1>1, <1>6 DEF RecoveryUpdate, Goto, Ids
  <2>2. \A j \in Ids : /\ account'[j].email = account[j].email /\ account'[j].code = account[j].code
                       /\ account'[j].confirmed = account[j].confirmed
                       /\ account'[j].recovery = IF j = req[r].id THEN c ELSE account[j].recovery
    BY <1>1, <2>1 DEF Row
  <2> QED
    BY <1>1, <2>1, <2>2 DEF RowStep
<1>7. ASSUME NEW r \in Req, UpdateHash(r) PROVE G
  <2>1. /\ Ids' = Ids /\ gone' = gone
        /\ \A j \in Ids : /\ account'[j].email = account[j].email /\ account'[j].code = account[j].code
                          /\ account'[j].confirmed = account[j].confirmed
                          /\ account'[j].recovery = account[j].recovery
    BY <1>1, <1>7 DEF UpdateHash, Ids, Row
  <2> QED
    BY <2>1 DEF RowStep
<1>8. ASSUME NEW r \in Req, ClearRecovery(r) PROVE G
  <2>1. /\ Ids' = Ids /\ gone' = gone /\ req[r].pc = "clear" /\ req'[r] = Idle
        /\ \A j \in Ids : /\ account'[j].email = account[j].email /\ account'[j].code = account[j].code
                          /\ account'[j].confirmed = account[j].confirmed
                          /\ account'[j].recovery = IF j = req[r].id THEN None ELSE account[j].recovery
    BY <1>1, <1>8 DEF ClearRecovery, Finish, Goto, Ids, Row
  <2> QED
    BY <2>1 DEF RowStep
<1>9. ASSUME NEW r \in Req, NEW i \in Ids, DeleteUser(r, i) PROVE G
  BY <1>1, <1>9 DEF DeleteUser, Restrict, RowStep, Ids
<1> HIDE DEF G
<1> QED
  BY <1>2, <1>3, <1>4, <1>5, <1>6, <1>7, <1>8, <1>9
  DEF Next, Act, FindByLogin, FindByEmail, CreateUserFails, GetCode, SendMail, MailFails, FloatingMailFails,
      ConfirmFind, ResendFind, ResendCheck, ResendUpdateFails, RecoveryFind, RecoveryUpdateFails,
      NewPasswordFind, UpdateHashFails, Abort, Tick, G

(* Every step does to the requests only what ReadStep says. *)
LEMMA ReadNext ==
  ASSUME IInv, Next
  PROVE  ReadStep
<1> DEFINE G == ReadStep
<1>1. req \in [Req -> Request] /\ Idle.pc = "idle"
  BY DEF IInv, Idle
<1> USE DEF UsePC
<1>2. ASSUME NEW r \in Req, NEW q, req' = [req EXCEPT ![r] = q], used' = used,
             q.pc \notin {"confirm", "hash", "clear"} PROVE G
  BY <1>1, <1>2 DEF ReadStep
<1>3. ASSUME NEW r \in Req, NEW q, NEW from, Goto(r, from, q), used' = used,
             q.pc \notin {"confirm", "hash", "clear"} PROVE G
  BY <1>2, <1>3 DEF Goto
<1>4. ASSUME NEW r \in Req, NEW q, Start(r, q), used' = used,
             q.pc \notin {"confirm", "hash", "clear"} PROVE G
  BY <1>2, <1>4 DEF Start
<1>5. ASSUME NEW r \in Req, NEW i \in Ids, NEW c \in Mailed, ConfirmFind(r, i, c) PROVE G
  <2> DEFINE q == [Idle EXCEPT !.pc = "confirm", !.email = account[i].email, !.id = i, !.code = c]
  <2>1. q.pc = "confirm" /\ q.email = account[i].email /\ q.code = c
    BY DEF Idle
  <2>2. req' = [req EXCEPT ![r] = q] /\ UNCHANGED <<account, used>> /\ account[i].code = c
    BY <1>5 DEF ConfirmFind, Start
  <2> HIDE DEF q
  <2> QED
    BY <1>1, <2>1, <2>2 DEF ReadStep
<1>6. ASSUME NEW r \in Req, NEW i \in Ids, NEW c \in Mailed, NewPasswordFind(r, i, c) PROVE G
  <2> DEFINE q == [Idle EXCEPT !.pc = "hash", !.id = i, !.code = c]
  <2>1. q.pc = "hash" /\ q.id = i /\ q.code = c
    BY DEF Idle
  <2>2. /\ req' = [req EXCEPT ![r] = q] /\ req[r] = Idle
        /\ UNCHANGED <<account, used>> /\ account[i].recovery = c
    BY <1>6 DEF NewPasswordFind, Start
  <2> HIDE DEF q
  <2> QED
    BY <1>1, <2>1, <2>2 DEF ReadStep
<1>7. ASSUME NEW r \in Req, UpdateHash(r) PROVE G
  <2>1. PICK q \in Request : q = [req[r] EXCEPT !.pc = "clear"]
    BY <1>1 DEF Request, PC
  <2>2. q.pc = "clear" /\ q.id = req[r].id /\ q.code = req[r].code
    BY <1>1, <2>1 DEF Request
  <2>3. req' = [req EXCEPT ![r] = q] /\ req[r].pc = "hash" /\ used' = used \cup {req[r].code}
    BY <1>7, <2>1 DEF UpdateHash, Goto, Next1
  <2> QED
    BY <1>1, <2>2, <2>3 DEF ReadStep
<1>8. ASSUME NEW S \in SUBSET Req, used' = used \ ClearedBy(S),
             req' = [s \in Req |-> IF s \in S THEN Idle ELSE req[s]]
      PROVE G
  BY <1>1, <1>8 DEF ReadStep, ClearedBy
<1>9. ASSUME NEW r \in Req, Abort(r) PROVE G
  <2>1. req' = [s \in Req |-> IF s \in {r} THEN Idle ELSE req[s]] /\ used' = used \ ClearedBy({r})
    BY <1>1, <1>9 DEF Abort, Finish, Goto
  <2> QED
    BY <1>8, <2>1
<1>10. ASSUME req' = req, used' = used PROVE G
  BY <1>10 DEF ReadStep
<1> HIDE DEF G
<1> USE DEF Idle
<1>11. ASSUME NEW r \in Req,
              \/ \E l \in Login, e \in Email, admin \in BOOLEAN : FindByLogin(r, l, e, admin)
              \/ \E e \in Email : ResendFind(r, e)
              \/ \E i \in Ids : RecoveryFind(r, i)
       PROVE G
  BY <1>4, <1>11 DEF FindByLogin, ResendFind, RecoveryFind
<1> USE DEF Finish
<1>12. \A r \in Req : /\ [req[r] EXCEPT !.pc = "create"].pc = "create"
                      /\ [req[r] EXCEPT !.pc = "getCode"].pc = "getCode"
                      /\ [req[r] EXCEPT !.pc = "resendUpdate"].pc = "resendUpdate"
  BY <1>1 DEF Request
<1>13. \A r \in Req : \A c : /\ [[req[r] EXCEPT !.pc = "floatingMail"] EXCEPT !.code = c].pc = "floatingMail"
                             /\ [[req[r] EXCEPT !.pc = "mail"] EXCEPT !.code = c].pc = "mail"
  BY <1>1 DEF Request
<1>14. ASSUME NEW r \in Req,
              \/ FindByEmail(r) \/ CreateUserFails(r) \/ MailFails(r) \/ SendMail(r) \/ ConfirmUpdate(r)
              \/ ResendCheck(r) \/ ResendUpdateFails(r) \/ RecoveryUpdateFails(r) \/ UpdateHashFails(r)
              \/ ClearRecovery(r) \/ \E i \in Id, c \in Code : CreateUser(r, i, c)
       PROVE G
  BY <1>3, <1>12, <1>14 DEF Next1, FindByEmail, CreateUserFails, MailFails, SendMail, ConfirmUpdate,
     ResendCheck, ResendUpdateFails, RecoveryUpdateFails, UpdateHashFails, ClearRecovery, CreateUser
<1>15. ASSUME NEW r \in Req, GetCode(r) \/ \E c \in Code : ResendUpdate(r, c) \/ RecoveryUpdate(r, c) PROVE G
  BY <1>3, <1>13, <1>15 DEF Next1, GetCode, ResendUpdate, RecoveryUpdate
<1> QED
  BY <1>5, <1>6, <1>7, <1>8, <1>9, <1>10, <1>11, <1>14, <1>15
  DEF Next, Act, FloatingMailFails, DeleteUser, Tick, G

-----------------------------------------------------------------------------
(* A confirmation in flight still finds, under its e-mail, only the account *)
(* whose present code it was shown.                                         *)
ConfirmFresh ==
  \A r \in Req : req[r].pc = "confirm" => \A i \in WithEmail(req[r].email) : account[i].code = req[r].code

(* With no resend and no registration under its e-mail, it stays so. *)
LEMMA ConfirmFreshNext ==
  ASSUME IInv, ConfirmFresh, NoWriteUnderConfirm, Next
  PROVE  ConfirmFresh'
<1>1. RowStep /\ ReadStep
  BY RowNext, ReadNext
<1> SUFFICES ASSUME NEW r \in Req, req'[r].pc = "confirm", NEW i \in Ids', account'[i].email = req'[r].email
             PROVE  account'[i].code = req'[r].code
  BY DEF ConfirmFresh, WithEmail
<1>2. CASE req'[r] = req[r]
  BY <1>1, <1>2 DEF RowStep, ConfirmFresh, NoWriteUnderConfirm, WithEmail
<1>3. ASSUME UNCHANGED account, NEW j \in Ids, req'[r].email = account[j].email, req'[r].code = account[j].code
      PROVE  account'[i].code = req'[r].code
  <2>1. i \in Ids /\ i = j
    BY <1>3 DEF IInv, Data, UniqueIdentity, Ids
  <2> QED
    BY <1>3, <2>1
<1> QED
  BY <1>1, <1>2, <1>3 DEF ReadStep, UsePC

(* Without such an overlap a confirmation confirms only the account whose   *)
(* present code the client presented.                                       *)
THEOREM ConfirmsThatCode == Spec /\ []NoWriteUnderConfirm => ConfirmsPresentedCode
<1> DEFINE Shown == \A i \in Ids \cap Ids' : account'[i].confirmed /\ ~account[i].confirmed =>
             \E r \in Req : req[r].pc = "confirm" /\ req'[r] = Idle /\ req[r].code = account[i].code
<1>1. Init => ConfirmFresh
  BY DEF Init, ConfirmFresh, Idle
<1>2. IInv /\ ConfirmFresh /\ NoWriteUnderConfirm /\ [Next]_vars => ConfirmFresh'
  <2>1. ASSUME ConfirmFresh, UNCHANGED vars PROVE ConfirmFresh'
    BY <2>1 DEF vars, ConfirmFresh, WithEmail, Ids
  <2> QED
    BY <2>1, ConfirmFreshNext
<1>3. ASSUME IInv, ConfirmFresh, Next PROVE Shown
  <2>1. RowStep /\ Ids \subseteq gone
    BY <1>3, RowNext DEF IInv, Data, Tables
  <2> SUFFICES ASSUME NEW i \in Ids, i \in Ids', account'[i].confirmed, ~account[i].confirmed
               PROVE \E r \in Req : req[r].pc = "confirm" /\ req'[r] = Idle /\ req[r].code = account[i].code
    OBVIOUS
  <2>2. PICK s \in Req : req[s].pc = "confirm" /\ req'[s] = Idle /\ req[s].email = account[i].email
    BY <2>1 DEF RowStep
  <2>3. account[i].code = req[s].code
    BY <1>3, <2>2 DEF ConfirmFresh, WithEmail
  <2> QED
    BY <2>2, <2>3
<1>4. IInv /\ ConfirmFresh /\ [Next]_vars => [Shown]_vars
  BY <1>3
<1> QED
  BY <1>1, <1>2, <1>4, Invariance, PTL DEF Spec, ConfirmsPresentedCode

-----------------------------------------------------------------------------
(* A request that is hashing a new password holds a code not used yet. *)
HashFresh == \A r \in Req : req[r].pc = "hash" => req[r].code \notin used

(* While no two requests use one code, it stays so. *)
LEMMA HashFreshNext ==
  ASSUME IInv, Dead, HashFresh, OneUse, OneUse', Next
  PROVE  HashFresh'
<1>1. ReadStep
  BY ReadNext
<1> SUFFICES ASSUME NEW r \in Req, req'[r].pc = "hash"
             PROVE  req'[r].code \notin used'
  BY DEF HashFresh
<1>2. CASE req'[r] = req[r]
  BY <1>1, <1>2 DEF ReadStep, HashFresh, OneUse, UsePC
<1>3. CASE /\ req[r] = Idle /\ UNCHANGED <<account, used>> /\ req'[r].id \in Ids
           /\ req'[r].code = account[req'[r].id].recovery /\ \A s \in Req \ {r} : req'[s] = req[s]
  <2> SUFFICES ASSUME req'[r].code \in used PROVE FALSE
    BY <1>3
  <2>1. PICK s \in Req : req[s].pc = "clear" /\ req[s].code = req'[r].code
    BY <1>3 DEF Dead
  <2>2. s # r /\ req'[s] = req[s]
    BY <1>3, <2>1 DEF Idle
  <2> QED
    BY <2>1, <2>2 DEF OneUse, UsePC
<1> QED
  BY <1>1, <1>2, <1>3 DEF ReadStep, UsePC

(* While no two requests use one recovery code at once, it changes one      *)
(* password, if the clearing that follows is not cut short.                 *)
THEOREM CodeChangesOnce == Spec /\ []OneUse => RecoveryCodeOnce
<1> DEFINE Once == \A r \in Req : req[r].pc = "hash" /\ req'[r].pc = "clear" => req[r].code \notin used
<1>1. Init => HashFresh
  BY DEF Init, HashFresh, Idle
<1>2. IInv /\ Dead /\ HashFresh /\ OneUse /\ OneUse' /\ [Next]_vars => HashFresh'
  <2>1. ASSUME HashFresh, UNCHANGED vars PROVE HashFresh'
    BY <2>1 DEF vars, HashFresh
  <2> QED
    BY <2>1, HashFreshNext
<1>3. HashFresh => [Once]_vars
  BY DEF HashFresh
<1> QED
  BY <1>1, <1>2, <1>3, Invariance, DeadAlways, PTL DEF Spec, RecoveryCodeOnce

-----------------------------------------------------------------------------
(* A request that uses a recovery code finds that code, or none, in the row *)
(* it will clear, but for a newer code drawn since.                         *)
UseFresh ==
  \A r \in Req : req[r].pc \in UsePC =>
    /\ req[r].id \in gone
    /\ req[r].id \in Ids => account[req[r].id].recovery \in {req[r].code, None} \/ r \in superseded

(* Every step keeps it so: only a recovery writes another code there. *)
LEMMA UseFreshNext ==
  ASSUME IInv, UseFresh, Next
  PROVE  UseFresh'
<1>1. RowStep /\ ReadStep /\ Ids \subseteq gone
  BY RowNext, ReadNext DEF IInv, Data, Tables
<1> SUFFICES ASSUME NEW r \in Req, req'[r].pc \in UsePC
             PROVE  /\ req'[r].id \in gone'
                    /\ req'[r].id \in Ids' =>
                         account'[req'[r].id].recovery \in {req'[r].code, None} \/ r \in superseded'
  BY DEF UseFresh
<1>2. CASE req[r].pc \in UsePC /\ req'[r].id = req[r].id /\ req'[r].code = req[r].code
  <2> DEFINE i == req[r].id
  <2>1. i \in gone /\ i \in gone' /\ (i \in Ids => account[i].recovery \in {req[r].code, None} \/ r \in superseded)
    BY <1>1, <1>2 DEF UseFresh, RowStep
  <2>2. r \in Using \cap Using'
    BY <1>2 DEF Using, UsePC
  <2>3. r \in superseded \/ Drawn(i) => r \in superseded'
    BY <2>2 DEF Next, Watch
  <2>4. ASSUME i \in Ids' PROVE account'[i].recovery \in {req[r].code, None} \/ r \in superseded'
    <3>1. i \in Ids /\ (account'[i].recovery \in {account[i].recovery, None} \/ Drawn(i))
      BY <1>1, <2>1, <2>4 DEF RowStep, Drawn
    <3> QED
      BY <2>1, <2>3, <3>1
  <2> QED
    BY <1>2, <2>1, <2>4
<1>3. CASE req'[r].pc = "hash" /\ UNCHANGED account /\ req'[r].id \in Ids /\ req'[r].code = account[req'[r].id].recovery
  BY <1>1, <1>3 DEF RowStep, Ids
<1> QED
  BY <1>1, <1>2, <1>3 DEF ReadStep, UsePC

(* Whatever overlaps, and whatever is cut short, the code a new password    *)
(* clears is the one that changed it or a newer one that overtook it.       *)
THEOREM ClearsUsedCode == Spec => OnlyUsedCodesCleared
<1> DEFINE Cleared == \A i \in Ids \cap Ids' : account'[i].recovery = None /\ account[i].recovery # None =>
             \E r \in Req : /\ req[r].pc = "clear" /\ req'[r] = Idle /\ req[r].id = i
                            /\ req[r].code = account[i].recovery \/ r \in superseded
<1>1. Init => UseFresh
  BY DEF Init, UseFresh, UsePC, Idle
<1>2. IInv /\ UseFresh /\ [Next]_vars => UseFresh'
  <2>1. ASSUME UseFresh, UNCHANGED vars PROVE UseFresh'
    BY <2>1 DEF vars, UseFresh, Ids
  <2> QED
    BY <2>1, UseFreshNext
<1>3. ASSUME IInv, UseFresh, Next PROVE Cleared
  <2>1. RowStep /\ Ids \subseteq gone
    BY <1>3, RowNext DEF IInv, Data, Tables
  <2> SUFFICES ASSUME NEW i \in Ids, i \in Ids', account'[i].recovery = None, account[i].recovery # None
               PROVE \E r \in Req : /\ req[r].pc = "clear" /\ req'[r] = Idle /\ req[r].id = i
                                    /\ req[r].code = account[i].recovery \/ r \in superseded
    OBVIOUS
  <2>2. PICK s \in Req : req[s].pc = "clear" /\ req[s].id = i /\ req'[s] = Idle
    BY <2>1 DEF RowStep
  <2> QED
    BY <1>3, <2>2 DEF UseFresh, UsePC
<1>4. IInv /\ UseFresh /\ [Next]_vars => [Cleared]_vars
  BY <1>3
<1> QED
  BY <1>1, <1>2, <1>4, Invariance, PTL DEF Spec, OnlyUsedCodesCleared

(* One request at a time is such a run: an only request cannot overlap.     *)
COROLLARY AloneCodesAreSafe ==
  ASSUME NEW r0, Req = {r0}
  PROVE  Spec => ConfirmsPresentedCode /\ RecoveryCodeOnce
<1>1. NoWriteUnderConfirm /\ OneUse
  BY DEF NoWriteUnderConfirm, OneUse, UsePC
<1> QED
  BY <1>1, ConfirmsThatCode, CodeChangesOnce, PTL

-----------------------------------------------------------------------------
(* Accounts implements AccountLifecycle.  What the abstract step asks for   *)
(* is what Held keeps true between a request's reading and its write.       *)
CodeOf(i, use) == IF use = "confirm" THEN account[i].code ELSE account[i].recovery
Slot == [id : Id, use : {"confirm", "recover"}, code : Code]

(* The codes that work, one by one. *)
WorksBySlot == Works = {w \in Slot : w.id \in Ids /\ w.code = CodeOf(w.id, w.use)}

(* The two ways to say which codes work agree. *)
LEMMA WorksAre == IInv => WorksBySlot
<1> SUFFICES ASSUME IInv PROVE WorksBySlot
  OBVIOUS
<1>1. \A i \in Ids : i \in Id /\ account[i].code \in Code /\ account[i].recovery \in Code \cup {None}
  BY DEF IInv, Data, Tables, Row
<1>2. None \notin Code
  BY NoneAssumption
<1> QED
  BY <1>1, <1>2 DEF WorksBySlot, Works, Slot, CodeOf

(* A step that keeps the rows' identities, flags and codes is a stutter.    *)
LEMMA RowsKept ==
  ASSUME UNCHANGED <<account, gone, drawn, mails>>
  PROVE  UNCHANGED Lifecycle!lvars
BY DEF Lifecycle!lvars, Member, Works, Ids

(* An account's row, seen from above. *)
LEMMA MemberIs ==
  /\ DOMAIN Member = Ids
  /\ \A i \in Ids : Member[i] = [login |-> account[i].login, email |-> account[i].email,
                                 confirmed |-> account[i].confirmed, password |-> account[i].password]
BY DEF Member

(* A row that keeps its identity and flags looks the same from above. *)
LEMMA MemberKept ==
  ASSUME Ids' = Ids,
         \A i \in Ids : /\ account'[i].login = account[i].login /\ account'[i].email = account[i].email
                        /\ account'[i].confirmed = account[i].confirmed
                        /\ account'[i].password = account[i].password
  PROVE  Member' = Member
BY DEF Member

(* A new code of one account and one use replaces the old one. *)
LEMMA IssueWorks ==
  ASSUME WorksBySlot, WorksBySlot', NEW i \in Id, NEW use \in {"confirm", "recover"}, NEW c \in Code,
         c \notin drawn, drawn' = drawn \cup {c}, Ids' = Ids \cup {i},
         CodeOf(i, use)' = c,
         \A j \in Ids : \A u \in {"confirm", "recover"} : (j = i /\ u = use) \/ CodeOf(j, u)' = CodeOf(j, u),
         i \in Ids \/ \A u \in {"confirm", "recover"} : u = use \/ CodeOf(i, u)' = None
  PROVE  Lifecycle!Issue(i, use, c)
<1>1. Works = {w \in Slot : w.id \in Ids /\ w.code = CodeOf(w.id, w.use)}
  BY DEF WorksBySlot
<1>2. Works' = {w \in Slot : w.id \in Ids' /\ w.code = CodeOf(w.id, w.use)'}
  BY DEF WorksBySlot, Slot
<1>3. None \notin Code
  BY NoneAssumption
<1>4. Works' = {w \in Works : w.id # i \/ w.use \notin {use}} \cup {[id |-> i, use |-> use, code |-> c]}
  BY <1>1, <1>2, <1>3 DEF Slot
<1> QED
  BY <1>4 DEF Lifecycle!Issue, Lifecycle!Without

(* The empty tables are the empty lifecycle. *)
LEMMA LifecycleInit == Init => Lifecycle!Init
BY DEF Init, Lifecycle!Init, Member, Works, Ids

(* Every step of Accounts is a step of AccountLifecycle or a stutter. *)
LEMMA LifecycleStep ==
  ASSUME IInv, WorksBySlot, WorksBySlot', Next
  PROVE  [Lifecycle!Next]_Lifecycle!lvars
<1> DEFINE G == [Lifecycle!Next]_Lifecycle!lvars
<1>0. /\ account \in [Ids -> Row] /\ Ids \subseteq Id /\ gone \subseteq Id /\ Ids \subseteq gone
      /\ drawn \subseteq Code /\ None \notin Code /\ req \in [Req -> Request]
      /\ \A r \in Req : Held(req[r])
  BY NoneAssumption DEF IInv, Data, Tables
<1>1. DOMAIN Member = Ids
  BY MemberIs
<1>2. ASSUME UNCHANGED <<account, gone, drawn, mails>> PROVE G
  BY <1>2, RowsKept
<1>3. ASSUME NEW r \in Req, NEW i \in Id, NEW c \in Code, CreateUser(r, i, c) PROVE G
  <2> DEFINE l == req[r].login
             e == req[r].email
             new == [login |-> l, email |-> e, confirmed |-> FALSE, password |-> None]
  <2>1. l \in Login /\ e \in Email
    BY <1>0, <1>3 DEF CreateUser, Goto, Held
  <2>2. /\ i \notin gone /\ c \notin drawn /\ Ids' = Ids \cup {i} /\ drawn' = drawn \cup {c}
        /\ gone' = gone \cup {i} /\ mails' = mails
        /\ \A j \in Ids : account'[j] = account[j] /\ account[j].login # l /\ account[j].email # e
        /\ account'[i].login = l /\ account'[i].email = e /\ account'[i].password = None
        /\ account'[i].confirmed = FALSE
        /\ account'[i].code = c /\ account'[i].recovery = None
    BY <1>0, <1>3 DEF CreateUser, Ids, WithLogin, WithEmail
  <2> HIDE DEF l, e
  <2>3. Member' = [j \in Ids \cup {i} |-> IF j = i THEN new ELSE Member[j]]
    BY <1>0, <2>2 DEF Member
  <2>4. \A j \in Ids : Member[j].login # l /\ Member[j].email # e
    BY <2>2, MemberIs
  <2>5. Lifecycle!Issue(i, "confirm", c)
    BY <1>0, <2>2, IssueWorks DEF CodeOf
  <2>6. Lifecycle!Join(i, l, e, c)
    BY <1>1, <2>2, <2>3, <2>4, <2>5 DEF Lifecycle!Join, Lifecycle!Members
  <2> QED
    BY <2>1, <2>6 DEF Lifecycle!Next
<1>4. ASSUME NEW r \in Req, SendMail(r) PROVE G
  <2> DEFINE e == req[r].email
             c == req[r].code
  <2>1. e \in Email /\ c \in drawn /\ \A i \in Ids : c \in CodesOf(i) => account[i].email = e
    BY <1>0, <1>4 DEF SendMail, Held
  <2>2. mails' = mails \cup {[to |-> e, code |-> c]} /\ UNCHANGED <<account, gone, drawn>>
    BY <1>4 DEF SendMail
  <2> HIDE DEF e, c
  <2>3. \A w \in Works : w.code = c => w.id \in Ids /\ c \in CodesOf(w.id)
    BY <1>0, <2>1 DEF WorksBySlot, CodeOf, CodesOf, Slot
  <2>4. Lifecycle!Send(e, c)
    BY <2>1, <2>2, <2>3, MemberIs DEF Lifecycle!Send, Member, Works, Ids
  <2> QED
    BY <1>0, <2>1, <2>4 DEF Lifecycle!Next
<1>5. ASSUME NEW r \in Req, ConfirmUpdate(r) PROVE G
  <2>1. \E m \in mails : m.to = req[r].email
    BY <1>0, <1>5 DEF ConfirmUpdate, Finish, Goto, Held
  <2>2. account' = [j \in Ids |->
          IF account[j].email = req[r].email THEN [account[j] EXCEPT !.confirmed = TRUE] ELSE account[j]]
        /\ UNCHANGED <<gone, drawn, mails>>
    BY <1>5 DEF ConfirmUpdate, WithEmail
  <2>3. CASE \A j \in Ids : account[j].email # req[r].email
    <3>1. account' = account
      BY <1>0, <2>2, <2>3
    <3> QED
      BY <1>2, <2>2, <3>1
  <2>4. ASSUME NEW i \in Ids, account[i].email = req[r].email PROVE G
    <3>1. \A j \in Ids : account[j].email = req[r].email => j = i
      BY <2>4 DEF IInv, Data, UniqueIdentity
    <3>2. Ids' = Ids /\ \A j \in Ids : account'[j] = IF j = i THEN [account[j] EXCEPT !.confirmed = TRUE] ELSE account[j]
      BY <2>2, <2>4, <3>1 DEF Ids
    <3>3. \A j \in Ids : /\ account'[j].login = account[j].login /\ account'[j].email = account[j].email
                         /\ account'[j].password = account[j].password
                         /\ account'[j].code = account[j].code /\ account'[j].recovery = account[j].recovery
      BY <1>0, <3>2 DEF Row
    <3>4. account'[i].confirmed = TRUE /\ \A j \in Ids \ {i} : account'[j] = account[j]
      BY <1>0, <3>2 DEF Row
    <3>5. Member' = [Member EXCEPT ![i].confirmed = TRUE]
      <4>1. \A j \in Ids \ {i} : Member'[j] = Member[j]
        BY <3>2, <3>4 DEF Member
      <4>2. Member'[i] = [login |-> account[i].login, email |-> account[i].email,
                          confirmed |-> TRUE, password |-> account[i].password]
        BY <3>2, <3>3, <3>4 DEF Member
      <4>3. Member'[i] = [Member[i] EXCEPT !.confirmed = TRUE]
        <5>1. PICK q \in [login : Login, email : Email, confirmed : BOOLEAN, password : Code \cup {None}] :
                q = Member[i]
          BY <1>0, MemberIs DEF Row
        <5>2. q.login = account[i].login /\ q.email = account[i].email /\ q.password = account[i].password
          BY <5>1, MemberIs
        <5> DEFINE T == [login : Login, email : Email, confirmed : BOOLEAN, password : Code \cup {None}]
                   a == [q EXCEPT !.confirmed = TRUE]
                   b == [login |-> q.login, email |-> q.email, confirmed |-> TRUE, password |-> q.password]
        <5>3. a \in T /\ b \in T
          BY <5>1
        <5>4. a.login = b.login /\ a.email = b.email /\ a.password = b.password
          BY <5>1
        <5>5. a.confirmed = b.confirmed
          BY <5>1, Zenon
        <5>6. \A x, y \in T : x.login = y.login /\ x.email = y.email /\ x.password = y.password
                               /\ x.confirmed = y.confirmed => x = y
          OBVIOUS
        <5>7. Member'[i] = b
          BY <4>2, <5>2
        <5> HIDE DEF a, b, T
        <5>8. a = b
          BY <5>3, <5>4, <5>5, <5>6
        <5> QED
          BY <5>1, <5>7, <5>8 DEF a
      <4>4. Member' = [j \in Ids |-> IF j = i THEN [Member[i] EXCEPT !.confirmed = TRUE] ELSE Member[j]]
        BY <3>2, <4>1, <4>3 DEF Member
      <4> QED
        BY <4>4, MemberIs
    <3>6. Works' = Works
      BY <3>2, <3>3 DEF Works
    <3>7. Member[i].email = req[r].email
      BY <2>4, MemberIs
    <3>8. Lifecycle!Confirm(i)
      BY <2>1, <2>2, <3>5, <3>6, <3>7 DEF Lifecycle!Confirm
    <3> QED
      BY <1>1, <3>8 DEF Lifecycle!Next, Lifecycle!Members
  <2> QED
    BY <2>3, <2>4
<1>6. ASSUME NEW r \in Req, NEW c \in Code, ResendUpdate(r, c) PROVE G
  <2>1. PICK i \in Ids : account' = [account EXCEPT ![i].code = c, ![i].exp = clock + CodeTTL]
    BY <1>6 DEF ResendUpdate, WithEmail
  <2>2. Ids' = Ids /\ c \notin drawn /\ drawn' = drawn \cup {c} /\ UNCHANGED <<gone, mails>>
    BY <1>0, <1>6, <2>1 DEF ResendUpdate, Ids
  <2>3. \A j \in Ids : /\ account'[j].login = account[j].login /\ account'[j].email = account[j].email
                       /\ account'[j].confirmed = account[j].confirmed
                       /\ account'[j].password = account[j].password
                       /\ account'[j].recovery = account[j].recovery
                       /\ account'[j].code = IF j = i THEN c ELSE account[j].code
    BY <1>0, <2>1 DEF Row
  <2>4. Member' = Member
    BY <2>2, <2>3, MemberKept
  <2>5. Lifecycle!Issue(i, "confirm", c)
    BY <1>0, <2>2, <2>3, IssueWorks DEF CodeOf
  <2>6. Lifecycle!Renew(i, "confirm", c)
    BY <1>1, <2>2, <2>4, <2>5 DEF Lifecycle!Renew, Lifecycle!Members
  <2> QED
    BY <1>1, <2>6 DEF Lifecycle!Next, Lifecycle!Use, Lifecycle!Members
<1>7. ASSUME NEW r \in Req, NEW c \in Code, RecoveryUpdate(r, c) PROVE G
  <2>1. PICK i \in Ids : account' = [account EXCEPT ![i].recovery = c, ![i].recoveryExp = clock + CodeTTL]
    BY <1>7 DEF RecoveryUpdate
  <2>2. Ids' = Ids /\ c \notin drawn /\ drawn' = drawn \cup {c} /\ UNCHANGED <<gone, mails>>
    BY <1>0, <1>7, <2>1 DEF RecoveryUpdate, Ids
  <2>3. \A j \in Ids : /\ account'[j].login = account[j].login /\ account'[j].email = account[j].email
                       /\ account'[j].confirmed = account[j].confirmed
                       /\ account'[j].password = account[j].password
                       /\ account'[j].code = account[j].code
                       /\ account'[j].recovery = IF j = i THEN c ELSE account[j].recovery
    BY <1>0, <2>1 DEF Row
  <2>4. Member' = Member
    BY <2>2, <2>3, MemberKept
  <2>5. Lifecycle!Issue(i, "recover", c)
    BY <1>0, <2>2, <2>3, IssueWorks DEF CodeOf
  <2>6. Lifecycle!Renew(i, "recover", c)
    BY <1>1, <2>2, <2>4, <2>5 DEF Lifecycle!Renew, Lifecycle!Members
  <2> QED
    BY <1>1, <2>6 DEF Lifecycle!Next, Lifecycle!Use, Lifecycle!Members
<1>8. ASSUME NEW r \in Req, UpdateHash(r) PROVE G
  <2>1. PICK i \in Ids, k \in drawn :
          /\ account' = [account EXCEPT ![i].password = k]
          /\ [to |-> account[i].email, code |-> k] \in mails
    BY <1>0, <1>8 DEF UpdateHash, Goto, Held
  <2>2. Ids' = Ids /\ UNCHANGED <<gone, drawn, mails>>
    BY <1>0, <1>8, <2>1 DEF UpdateHash, Ids
  <2>3. \A j \in Ids : /\ account'[j].login = account[j].login /\ account'[j].email = account[j].email
                       /\ account'[j].confirmed = account[j].confirmed
                       /\ account'[j].code = account[j].code /\ account'[j].recovery = account[j].recovery
                       /\ account'[j].password = IF j = i THEN k ELSE account[j].password
    BY <1>0, <2>1 DEF Row
  <2>4. Member' = [Member EXCEPT ![i].password = k] /\ Works' = Works
    BY <2>2, <2>3 DEF Member, Works
  <2>5. Member[i].email = account[i].email
    BY MemberIs
  <2>6. Lifecycle!NewPassword(i, k)
    BY <2>1, <2>2, <2>4, <2>5 DEF Lifecycle!NewPassword
  <2> QED
    BY <1>0, <1>1, <2>6 DEF Lifecycle!Next, Lifecycle!Members
<1>9. ASSUME NEW r \in Req, ClearRecovery(r) PROVE G
  <2>1. /\ Ids' = Ids /\ UNCHANGED <<gone, drawn, mails>>
        /\ \A j \in Ids \ {req[r].id} : account'[j] = account[j]
    BY <1>0, <1>9 DEF ClearRecovery, Ids
  <2>2. CASE req[r].id \notin Ids
    <3>1. account' = account
      BY <1>0, <1>9, <2>2 DEF ClearRecovery
    <3> QED
      BY <1>2, <2>1, <3>1
  <2>3. CASE req[r].id \in Ids
    <3>1. PICK i \in Ids : i = req[r].id
      BY <2>3
    <3>2. \A j \in Ids : /\ account'[j].login = account[j].login /\ account'[j].email = account[j].email
                         /\ account'[j].confirmed = account[j].confirmed
                         /\ account'[j].password = account[j].password
                         /\ account'[j].code = account[j].code
                         /\ account'[j].recovery = IF j = i THEN None ELSE account[j].recovery
      BY <1>0, <1>9, <3>1 DEF ClearRecovery, Row
    <3>3. Member' = Member
      BY <2>1, <3>2, MemberKept
    <3>4. Works' = {w \in Slot : w.id \in Ids' /\ w.code = CodeOf(w.id, w.use)'}
      BY DEF WorksBySlot, Slot
    <3>5. Works' = {w \in Works : w.id # i \/ w.use \notin {"recover"}}
      BY <1>0, <2>1, <3>2, <3>4 DEF WorksBySlot, CodeOf, Slot
    <3>6. Lifecycle!Clear(i)
      BY <2>1, <3>3, <3>5 DEF Lifecycle!Clear, Lifecycle!Without
    <3> QED
      BY <1>1, <3>6 DEF Lifecycle!Next, Lifecycle!Members
  <2> QED
    BY <2>2, <2>3
<1>10. ASSUME NEW r \in Req, NEW i \in Ids, DeleteUser(r, i) PROVE G
  <2>1. /\ Ids' = Ids \ {i} /\ UNCHANGED <<gone, drawn, mails>>
        /\ \A j \in Ids' : account'[j] = account[j]
    BY <1>0, <1>10 DEF DeleteUser, Restrict, Ids
  <2>2. Member' = [j \in Ids \ {i} |-> Member[j]]
    BY <2>1 DEF Member
  <2>3. Works' = {w \in Slot : w.id \in Ids' /\ w.code = CodeOf(w.id, w.use)'}
    BY DEF WorksBySlot, Slot
  <2>4. Works' = {w \in Works : w.id # i \/ w.use \notin {"confirm", "recover"}}
    BY <2>1, <2>3 DEF WorksBySlot, CodeOf, Slot
  <2>5. Lifecycle!Leave(i)
    BY <1>1, <2>1, <2>2, <2>4 DEF Lifecycle!Leave, Lifecycle!Without, Lifecycle!Use, Lifecycle!Members
  <2> QED
    BY <1>1, <2>5 DEF Lifecycle!Next, Lifecycle!Members
<1> HIDE DEF G
<1> QED
  BY <1>2, <1>3, <1>4, <1>5, <1>6, <1>7, <1>8, <1>9, <1>10
  DEF Next, Act, FindByLogin, FindByEmail, CreateUserFails, GetCode, MailFails, FloatingMailFails,
      ConfirmFind, ResendFind, ResendCheck, ResendUpdateFails, RecoveryFind, RecoveryUpdateFails,
      NewPasswordFind, UpdateHashFails, Abort, Tick, G

(* Every behaviour of Accounts is one of AccountLifecycle: whatever         *)
(* overlaps, and wherever the process dies, every write is right when it is *)
(* made.                                                                    *)
THEOREM Refinement == Spec => WritesAreRight
<1>1. Init => Lifecycle!Init
  BY LifecycleInit
<1>2. IInv /\ WorksBySlot /\ WorksBySlot' /\ [Next]_vars => [Lifecycle!Next]_Lifecycle!lvars
  BY LifecycleStep, RowsKept DEF vars
<1> QED
  BY <1>1, <1>2, WorksAre, Invariance, PTL DEF Spec, WritesAreRight, Lifecycle!Spec
=============================================================================
