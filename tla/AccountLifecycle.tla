-------------------------- MODULE AccountLifecycle --------------------------
(***************************************************************************)
(* What the account tables promise, whatever the order in which the awaited *)
(* database calls of concurrent requests run: every write is as right at    *)
(* the moment it is made as if the request had read everything just then.   *)
(*   - an account joins with a login and an e-mail nobody has, and an id    *)
(*     that never named another;                                            *)
(*   - a code is drawn once, for one account and one use, and a code that   *)
(*     was replaced, cleared or deleted never works again;                  *)
(*   - a mail carries no code that works for another address;               *)
(*   - an account is confirmed only after a mail to its address, stays so,  *)
(*     and its password is replaced only with a code mailed to it.          *)
(* Accounts implements this specification (AccountsProofs).                 *)
(***************************************************************************)
CONSTANTS Id, Login, Email, Code, None

VARIABLES
  member,  \* id -> login, email, confirmed, password (the code it was set with)
  works,   \* the codes that work now: of which account, for which use
  gone, drawn, mails

lvars == <<member, works, gone, drawn, mails>>

Use == {"confirm", "recover"}
Members == DOMAIN member
Without(i, uses) == {w \in works : w.id # i \/ w.use \notin uses}

(* A code never drawn before becomes the account's only one for that use.   *)
Issue(i, use, c) ==
  /\ c \in Code \ drawn
  /\ drawn' = drawn \cup {c}
  /\ works' = Without(i, {use}) \cup {[id |-> i, use |-> use, code |-> c]}

Init ==
  /\ member = << >> /\ works = {}
  /\ gone = {} /\ drawn = {} /\ mails = {}

Join(i, l, e, c) ==
  LET new == [login |-> l, email |-> e, confirmed |-> FALSE, password |-> None] IN
  /\ i \in Id \ gone
  /\ \A j \in Members : member[j].login # l /\ member[j].email # e
  /\ member' = [j \in Members \cup {i} |-> IF j = i THEN new ELSE member[j]]
  /\ gone' = gone \cup {i}
  /\ Issue(i, "confirm", c)
  /\ UNCHANGED mails

Renew(i, use, c) ==
  /\ i \in Members
  /\ Issue(i, use, c)
  /\ UNCHANGED <<member, gone, mails>>

Send(e, c) ==
  /\ c \in drawn
  /\ \A w \in works : w.code = c => member[w.id].email = e
  /\ mails' = mails \cup {[to |-> e, code |-> c]}
  /\ UNCHANGED <<member, works, gone, drawn>>

Confirm(i) ==
  /\ \E m \in mails : m.to = member[i].email
  /\ member' = [member EXCEPT ![i].confirmed = TRUE]
  /\ UNCHANGED <<works, gone, drawn, mails>>

NewPassword(i, c) ==
  /\ [to |-> member[i].email, code |-> c] \in mails
  /\ member' = [member EXCEPT ![i].password = c]
  /\ UNCHANGED <<works, gone, drawn, mails>>

Clear(i) ==
  /\ works' = Without(i, {"recover"})
  /\ UNCHANGED <<member, gone, drawn, mails>>

Leave(i) ==
  /\ member' = [j \in Members \ {i} |-> member[j]]
  /\ works' = Without(i, Use)
  /\ UNCHANGED <<gone, drawn, mails>>

Next ==
  \/ \E i \in Id, l \in Login, e \in Email, c \in Code : Join(i, l, e, c)
  \/ \E i \in Members :
       \/ \E use \in Use, c \in Code : Renew(i, use, c)
       \/ Confirm(i)
       \/ \E c \in Code : NewPassword(i, c)
       \/ Clear(i)
       \/ Leave(i)
  \/ \E e \in Email, c \in Code : Send(e, c)

Spec == Init /\ [][Next]_lvars
=============================================================================
