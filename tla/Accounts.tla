------------------------------ MODULE Accounts ------------------------------
(***************************************************************************)
(* Registration, e-mail confirmation and password recovery.  The state is  *)
(* the PostgreSQL rows User, EmailConfirmation and PasswordRecovery of each *)
(* account, the mails delivered and the requests in flight.  As in          *)
(* Sessions, every awaited Prisma call is one action, and a refused request *)
(* changes nothing and ends.                                                *)
(***************************************************************************)
EXTENDS Naturals, Functions

CONSTANTS
  Id,        \* user ids
  Login, Email,
  Code,      \* codes randomUUID can draw, for confirmation and for recovery
  Req,       \* request slots
  None,      \* no id, login, e-mail or code (SQL null)
  CodeTTL,   \* lifetime of a code (one minute in the code)
  MaxTime,   \* bound on the clock
  Crashes    \* TRUE iff the process may die in the middle of a request

ASSUME NoneAssumption == None \notin Id \cup Login \cup Email \cup Code
ASSUME TimeAssumption == CodeTTL \in Nat /\ MaxTime \in Nat
ASSUME CrashAssumption == Crashes \in BOOLEAN

VARIABLES
  account,  \* id -> the row of User joined with its two code rows
  drawn,    \* codes drawn so far
  gone,     \* ids drawn so far: a user id is a UUID and never reused
  mails,    \* mails delivered: to whom, with which code
  used,     \* history: recovery codes a password was changed with, but for those
            \* whose clearing was cut short
  superseded, \* history: requests that use a recovery code and for whose account a
            \* newer one was drawn since they looked theirs up
  clock,
  req

vars == <<account, drawn, gone, mails, used, superseded, clock, req>>

(***************************************************************************)
(* password is the recovery code the present password was set with, None   *)
(* for the one given at registration.  Of a code row the model keeps the    *)
(* code and its expirationDate.                                             *)
(***************************************************************************)
Row == [login : Login, email : Email, password : Code \cup {None},
        confirmed : BOOLEAN, code : Code, exp : Nat,
        recovery : Code \cup {None}, recoveryExp : Nat]
PC == {"idle", "emailFree", "create", "getCode", "floatingMail", "mail", "confirm",
       "resendCheck", "resendUpdate", "recoveryUpdate", "hash", "clear"}
Idle == [pc |-> "idle", byAdmin |-> FALSE, login |-> None, email |-> None, id |-> None, code |-> None]

Start(r, q) == req[r] = Idle /\ req' = [req EXCEPT ![r] = q]
Goto(r, from, q) == req[r].pc = from /\ req' = [req EXCEPT ![r] = q]
Finish(r, from) == Goto(r, from, Idle)
Next1(r, pc) == [req[r] EXCEPT !.pc = pc]

Ids == DOMAIN account
WithLogin(l) == {i \in Ids : account[i].login = l}
WithEmail(e) == {i \in Ids : account[i].email = e}
(* The codes that requests of S changed a password with and have yet to clear. *)
ClearedBy(S) == {req[s].code : s \in {r \in S : req[r].pc = "clear"}}

-----------------------------------------------------------------------------
(* Registration, by the user or by the super-admin: two lookups, bcrypt,    *)
(* then an insert that fails on a unique index when either is taken.        *)
FindByLogin(r, l, e, admin) ==
  /\ WithLogin(l) = {}
  /\ Start(r, [Idle EXCEPT !.pc = "emailFree", !.login = l, !.email = e, !.byAdmin = admin])
  /\ UNCHANGED <<account, drawn, gone, mails, used, clock>>
FindByEmail(r) ==
  /\ IF WithEmail(req[r].email) = {}
     THEN Goto(r, "emailFree", Next1(r, "create"))
     ELSE Finish(r, "emailFree")
  /\ UNCHANGED <<account, drawn, gone, mails, used, clock>>
(* Mutant: User has no unique index. *)
CreateUserNoIndex(r, i, c) ==
  LET q == req[r]
      row == [login |-> q.login, email |-> q.email, password |-> None, confirmed |-> FALSE,
              code |-> c, exp |-> clock + CodeTTL, recovery |-> None, recoveryExp |-> 0] IN
  /\ i \in Id \ gone /\ c \in Code \ drawn
  /\ Goto(r, "create", IF q.byAdmin THEN Idle ELSE Next1(r, "getCode"))
  /\ account' = [j \in Ids \cup {i} |-> IF j = i THEN row ELSE account[j]]
  /\ drawn' = drawn \cup {c}
  /\ gone' = gone \cup {i}
  /\ UNCHANGED <<mails, used, clock>>
CreateUser(r, i, c) ==
  LET q == req[r]
      row == [login |-> q.login, email |-> q.email, password |-> None, confirmed |-> FALSE,
              code |-> c, exp |-> clock + CodeTTL, recovery |-> None, recoveryExp |-> 0] IN
  /\ WithLogin(q.login) = {} /\ WithEmail(q.email) = {}
  /\ i \in Id \ gone /\ c \in Code \ drawn
  /\ Goto(r, "create", IF q.byAdmin THEN Idle ELSE Next1(r, "getCode"))
  /\ account' = [j \in Ids \cup {i} |-> IF j = i THEN row ELSE account[j]]
  /\ drawn' = drawn \cup {c}
  /\ gone' = gone \cup {i}
  /\ UNCHANGED <<mails, used, clock>>
CreateUserFails(r) ==
  /\ WithLogin(req[r].login) # {} \/ WithEmail(req[r].email) # {}
  /\ Finish(r, "create")
  /\ UNCHANGED <<account, drawn, gone, mails, used, clock>>

(* Mutant: the code is read back from any row. *)
GetCodeAnyRow(r) ==
  /\ \E i \in Ids : Goto(r, "getCode", [Next1(r, "floatingMail") EXCEPT !.code = account[i].code])
  /\ UNCHANGED <<account, drawn, gone, mails, used, clock>>

(* The code is read back by e-mail, then the mail is sent without await.    *)
GetCode(r) ==
  /\ IF WithEmail(req[r].email) = {}
     THEN Finish(r, "getCode")
     ELSE \E i \in WithEmail(req[r].email) :
            Goto(r, "getCode", [Next1(r, "floatingMail") EXCEPT !.code = account[i].code])
  /\ UNCHANGED <<account, drawn, gone, mails, used, clock>>

SendMail(r) ==
  /\ req[r].pc \in {"mail", "floatingMail"}
  /\ Finish(r, req[r].pc)
  /\ mails' = mails \cup {[to |-> req[r].email, code |-> req[r].code]}
  /\ UNCHANGED <<account, drawn, gone, used, clock>>
(* An awaited mail that fails is caught and logged. *)
MailFails(r) ==
  /\ Finish(r, "mail")
  /\ UNCHANGED <<account, drawn, gone, mails, used, clock>>
(* The rejection of the floating one reaches no catch: it ends the process  *)
(* and with it every request that process was handling.                     *)
FloatingMailFails(r, S) ==
  /\ Crashes
  /\ req[r].pc = "floatingMail" /\ r \in S
  /\ req' = [s \in Req |-> IF s \in S THEN Idle ELSE req[s]]
  /\ used' = used \ ClearedBy(S)
  /\ UNCHANGED <<account, drawn, gone, mails, clock>>

-----------------------------------------------------------------------------
(* Confirmation: the account is found by the code, and updated by its       *)
(* e-mail in a later call.                                                  *)
(* Mutant: the code of the account found is not compared. *)
ConfirmFindAnyCode(r, i, c) ==
  /\ ~account[i].confirmed
  /\ account[i].exp >= clock
  /\ Start(r, [Idle EXCEPT !.pc = "confirm", !.email = account[i].email, !.id = i, !.code = c])
  /\ UNCHANGED <<account, drawn, gone, mails, used, clock>>
ConfirmFind(r, i, c) ==
  /\ account[i].code = c
  /\ ~account[i].confirmed
  /\ account[i].exp >= clock
  /\ Start(r, [Idle EXCEPT !.pc = "confirm", !.email = account[i].email, !.id = i, !.code = c])
  /\ UNCHANGED <<account, drawn, gone, mails, used, clock>>
(* Mutant: the update has no where clause. *)
ConfirmUpdateAll(r) ==
  /\ Finish(r, "confirm")
  /\ account' = [i \in Ids |-> [account[i] EXCEPT !.confirmed = TRUE]]
  /\ UNCHANGED <<drawn, gone, mails, used, clock>>
ConfirmUpdate(r) ==
  /\ Finish(r, "confirm")
  /\ account' = [i \in Ids |->
       IF i \in WithEmail(req[r].email) THEN [account[i] EXCEPT !.confirmed = TRUE] ELSE account[i]]
  /\ UNCHANGED <<drawn, gone, mails, used, clock>>

(* Resending: find by e-mail, refuse a confirmed account, draw a new code.  *)
ResendFind(r, e) ==
  /\ WithEmail(e) # {}
  /\ Start(r, [Idle EXCEPT !.pc = "resendCheck", !.email = e])
  /\ UNCHANGED <<account, drawn, gone, mails, used, clock>>
ResendCheck(r) ==
  /\ IF \E i \in WithEmail(req[r].email) : account[i].confirmed
     THEN Finish(r, "resendCheck")
     ELSE Goto(r, "resendCheck", Next1(r, "resendUpdate"))
  /\ UNCHANGED <<account, drawn, gone, mails, used, clock>>
(* Mutant: a resend starts the confirmation afresh. *)
ResendUpdateUnconfirms(r, c) ==
  /\ c \in Code \ drawn
  /\ \E i \in WithEmail(req[r].email) :
       account' = [account EXCEPT ![i].code = c, ![i].exp = clock + CodeTTL, ![i].confirmed = FALSE]
  /\ Goto(r, "resendUpdate", [Next1(r, "mail") EXCEPT !.code = c])
  /\ drawn' = drawn \cup {c}
  /\ UNCHANGED <<gone, mails, used, clock>>
(* Mutant: the code is cleared instead of replaced. *)
ResendUpdateClears(r, c) ==
  /\ c \in Code \ drawn
  /\ \E i \in WithEmail(req[r].email) :
       account' = [account EXCEPT ![i].code = None, ![i].exp = clock + CodeTTL]
  /\ Goto(r, "resendUpdate", [Next1(r, "mail") EXCEPT !.code = c])
  /\ drawn' = drawn \cup {c}
  /\ UNCHANGED <<gone, mails, used, clock>>
ResendUpdate(r, c) ==
  /\ c \in Code \ drawn
  /\ \E i \in WithEmail(req[r].email) :
       account' = [account EXCEPT ![i].code = c, ![i].exp = clock + CodeTTL]
  /\ Goto(r, "resendUpdate", [Next1(r, "mail") EXCEPT !.code = c])
  /\ drawn' = drawn \cup {c}
  /\ UNCHANGED <<gone, mails, used, clock>>
ResendUpdateFails(r) ==
  /\ WithEmail(req[r].email) = {}
  /\ Finish(r, "resendUpdate")
  /\ UNCHANGED <<account, drawn, gone, mails, used, clock>>

-----------------------------------------------------------------------------
(* Password recovery: find by e-mail, then draw a recovery code by id. *)
RecoveryFind(r, i) ==
  /\ Start(r, [Idle EXCEPT !.pc = "recoveryUpdate", !.id = i, !.email = account[i].email])
  /\ UNCHANGED <<account, drawn, gone, mails, used, clock>>
RecoveryUpdate(r, c) ==
  /\ c \in Code \ drawn
  /\ req[r].id \in Ids
  /\ Goto(r, "recoveryUpdate", [Next1(r, "mail") EXCEPT !.code = c])
  /\ account' = [account EXCEPT ![req[r].id].recovery = c, ![req[r].id].recoveryExp = clock + CodeTTL]
  /\ drawn' = drawn \cup {c}
  /\ UNCHANGED <<gone, mails, used, clock>>
RecoveryUpdateFails(r) ==
  /\ req[r].id \notin Ids
  /\ Finish(r, "recoveryUpdate")
  /\ UNCHANGED <<account, drawn, gone, mails, used, clock>>

(* New password: find by recovery code and check its expirationDate, hash,  *)
(* update the password, and only then clear the code.                       *)
NewPasswordFind(r, i, c) ==
  /\ account[i].recovery = c
  /\ clock <= account[i].recoveryExp
  /\ Start(r, [Idle EXCEPT !.pc = "hash", !.id = i, !.code = c])
  /\ UNCHANGED <<account, drawn, gone, mails, used, clock>>
(* Mutant: the update has no where clause. *)
UpdateHashAll(r) ==
  /\ Goto(r, "hash", Next1(r, "clear"))
  /\ account' = [i \in Ids |-> [account[i] EXCEPT !.password = req[r].code]]
  /\ used' = used \cup {req[r].code}
  /\ UNCHANGED <<drawn, gone, mails, clock>>
UpdateHash(r) ==
  /\ req[r].id \in Ids
  /\ Goto(r, "hash", Next1(r, "clear"))
  /\ account' = [account EXCEPT ![req[r].id].password = req[r].code]
  /\ used' = used \cup {req[r].code}
  /\ UNCHANGED <<drawn, gone, mails, clock>>
UpdateHashFails(r) ==
  /\ req[r].id \notin Ids
  /\ Finish(r, "hash")
  /\ UNCHANGED <<account, drawn, gone, mails, used, clock>>
(* Mutant: the code is not cleared. *)
ClearRecoveryForgets(r) ==
  /\ Finish(r, "clear")
  /\ UNCHANGED <<account, drawn, gone, mails, used, clock>>
(* Mutant: the clearing has no where clause. *)
ClearRecoveryAll(r) ==
  /\ Finish(r, "clear")
  /\ account' = [i \in Ids |-> [account[i] EXCEPT !.recovery = None, !.recoveryExp = 0]]
  /\ UNCHANGED <<drawn, gone, mails, used, clock>>
ClearRecovery(r) ==
  /\ Finish(r, "clear")
  /\ account' = [i \in Ids |->
       IF i = req[r].id THEN [account[i] EXCEPT !.recovery = None, !.recoveryExp = 0] ELSE account[i]]
  /\ UNCHANGED <<drawn, gone, mails, used, clock>>

-----------------------------------------------------------------------------
(* DELETE sa/users/:id, in a free request slot; the code rows cascade. *)
DeleteUser(r, i) ==
  /\ req[r] = Idle
  /\ account' = Restrict(account, Ids \ {i})
  /\ UNCHANGED <<drawn, gone, mails, used, clock, req>>

Abort(r) ==
  /\ Crashes
  /\ req[r].pc # "idle"
  /\ Finish(r, req[r].pc)
  /\ used' = used \ ClearedBy({r})
  /\ UNCHANGED <<account, drawn, gone, mails, clock>>

Tick ==
  /\ clock < MaxTime
  /\ clock' = clock + 1
  /\ UNCHANGED <<account, drawn, gone, mails, used, req>>

Init ==
  /\ account = << >>
  /\ drawn = {} /\ gone = {} /\ mails = {} /\ used = {} /\ superseded = {}
  /\ clock = 0
  /\ req = [r \in Req |-> Idle]

(* A client presents only codes that were mailed. *)
Mailed == {m.code : m \in mails}

Act ==
  \/ \E r \in Req :
       \/ \E l \in Login, e \in Email, admin \in BOOLEAN : FindByLogin(r, l, e, admin)
       \/ FindByEmail(r)
       \/ \E i \in Id, c \in Code : CreateUser(r, i, c)
       \/ CreateUserFails(r)
       \/ GetCode(r)
       \/ SendMail(r)
       \/ MailFails(r)
       \/ \E S \in SUBSET Req : FloatingMailFails(r, S)
       \/ \E i \in Ids, c \in Mailed : ConfirmFind(r, i, c)
       \/ ConfirmUpdate(r)
       \/ \E e \in Email : ResendFind(r, e)
       \/ ResendCheck(r)
       \/ \E c \in Code : ResendUpdate(r, c)
       \/ ResendUpdateFails(r)
       \/ \E i \in Ids : RecoveryFind(r, i)
       \/ \E c \in Code : RecoveryUpdate(r, c)
       \/ RecoveryUpdateFails(r)
       \/ \E i \in Ids, c \in Mailed : NewPasswordFind(r, i, c)
       \/ UpdateHash(r)
       \/ UpdateHashFails(r)
       \/ ClearRecovery(r)
       \/ \E i \in Ids : DeleteUser(r, i)
       \/ Abort(r)
  \/ Tick

(* Which uses of a recovery code a newer one overtakes. *)
Using == {r \in Req : req[r].pc \in {"hash", "clear"}}
Drawn(i) == i \in Ids \cap Ids' /\ account'[i].recovery \notin {account[i].recovery, None}
Watch == superseded' = {r \in Using \cap Using' : r \in superseded \/ Drawn(req[r].id)}
Next == Act /\ Watch

Spec == Init /\ [][Next]_vars

-----------------------------------------------------------------------------
(***************************************************************************)
(* Properties.                                                             *)
(***************************************************************************)
TypeOK ==
  /\ DOMAIN account \subseteq gone
  /\ account \in [DOMAIN account -> Row]
  /\ drawn \subseteq Code
  /\ gone \subseteq Id
  /\ mails \subseteq [to : Email, code : drawn]
  /\ used \subseteq drawn
  /\ superseded \subseteq Req
  /\ clock \in Nat
  /\ req \in [Req -> [pc : PC, byAdmin : BOOLEAN, login : Login \cup {None},
                      email : Email \cup {None}, id : Id \cup {None}, code : Code \cup {None}]]

(* No two accounts share a login or an e-mail, although registration looks  *)
(* both up several calls before it inserts (register-user-use-case.ts:23).  *)
UniqueIdentity ==
  \A i, j \in Ids : i # j => account[i].login # account[j].login /\ account[i].email # account[j].email

(* A code in the database was drawn for one account and one purpose. *)
CodesOf(i) == {account[i].code, account[i].recovery} \ {None}
CodesNameOneAccount ==
  /\ \A i, j \in Ids : i # j => CodesOf(i) \cap CodesOf(j) = {}
  /\ \A i \in Ids : CodesOf(i) \subseteq drawn /\ account[i].code # account[i].recovery

(* A mail never carries a code that works for an account with another       *)
(* address, whatever was deleted and registered again meanwhile             *)
(* (register-user-use-case.ts:43, user-password-recovery-use-case.ts:30).   *)
MailsReachTheOwner ==
  \A m \in mails, i \in Ids : m.code \in CodesOf(i) => account[i].email = m.to

(* An account is confirmed only if a code was mailed to its address. *)
ConfirmedOwnsMailbox ==
  \A i \in Ids : account[i].confirmed => \E m \in mails : m.to = account[i].email

(* A password is replaced only with a code that was mailed to the account's *)
(* address (new-password-use-case.ts:39).                                   *)
PasswordChangedByMail ==
  \A i \in Ids : account[i].password # None =>
    [to |-> account[i].email, code |-> account[i].password] \in mails

(* Once confirmed an account stays confirmed, also when a resend that found *)
(* it unconfirmed updates it later.                                         *)
StaysConfirmed ==
  [][\A i \in Ids \cap Ids' : account[i].confirmed => account'[i].confirmed]_vars

(* The account a confirmation confirms carries the code that was presented *)
(* (confirm-emal-use-case.ts:53).  It holds when requests run one at a time.*)
ConfirmsPresentedCode ==
  [][\A i \in Ids \cap Ids' : account'[i].confirmed /\ ~account[i].confirmed =>
       \E r \in Req : req[r].pc = "confirm" /\ req'[r] = Idle /\ req[r].code = account[i].code]_vars

(* A recovery code changes a password once, unless the request is cut short *)
(* between the update and the clearing (new-password-use-case.ts:39 and 41).*)
(* It holds when requests run one at a time.                                *)
RecoveryCodeOnce ==
  [][\A r \in Req : req[r].pc = "hash" /\ req'[r].pc = "clear" => req[r].code \notin used]_vars

(* A recovery code is cleared only by the request that changed a password   *)
(* with it; the clearing goes by user id (new-password-use-case.ts:41), so  *)
(* a newer code of the account goes unused with the one before it when it   *)
(* was drawn between the look-up and the clearing of that one, and not else.*)
OnlyUsedCodesCleared ==
  [][\A i \in Ids \cap Ids' : account'[i].recovery = None /\ account[i].recovery # None =>
       \E r \in Req : /\ req[r].pc = "clear" /\ req'[r] = Idle /\ req[r].id = i
                      /\ req[r].code = account[i].recovery \/ r \in superseded]_vars

(* When no request is in flight, the code a password was set with is dead,  *)
(* even if several requests presented it at once, unless one of them was    *)
(* cut short before the clearing (new-password-use-case.ts:41).             *)
UsedCodesAreDead ==
  (\A r \in Req : req[r].pc = "idle") => \A i \in Ids : account[i].recovery \notin used

(* Accounts implements AccountLifecycle: every write of a request is right  *)
(* when it is made, although the request read what allows it calls earlier  *)
(* (register-user-use-case.ts:23, confirm-emal-use-case.ts:53,              *)
(* new-password-use-case.ts:39).                                            *)
Member == [i \in Ids |-> [login |-> account[i].login, email |-> account[i].email,
                         confirmed |-> account[i].confirmed, password |-> account[i].password]]
Works == {[id |-> i, use |-> "confirm", code |-> account[i].code] : i \in Ids}
         \cup {[id |-> i, use |-> "recover", code |-> account[i].recovery] :
                 i \in {j \in Ids : account[j].recovery # None}}
Lifecycle == INSTANCE AccountLifecycle WITH member <- Member, works <- Works
WritesAreRight == Lifecycle!Spec
=============================================================================
