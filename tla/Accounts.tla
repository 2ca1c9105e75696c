------------------------------ MODULE Accounts ------------------------------
(***************************************************************************)
(* The user service over PostgreSQL: registration, login, and the tokens   *)
(* the other requests are authorised by.  Registration is the one place of *)
(* the program that opens a transaction: a user and the merchant that goes *)
(* with it are stored together or not at all.  A session is one request    *)
(* goroutine, and txs[s] what its transaction wrote and nobody else sees.  *)
(***************************************************************************)
EXTENDS Database, Routing

CONSTANTS
  Sessions,   \* the requests the server runs at once
  UserIds,    \* bound: the ids uuid.NewString can give out
  Emails,     \* the emails clients send
  Asked,      \* the roles clients ask for, "" when there is none
  TokenLife,  \* jwtExpiryMinutes
  MaxTime     \* bound: the last moment of the clock

ASSUME AccountAssumption == TokenLife \in Nat \ {0} /\ MaxTime \in Nat

VARIABLES
  users,      \* the users table: its rows
  merchants,  \* the merchants table: its rows
  txs,        \* the rows of each session's open transaction
  calls,      \* the request each session is serving
  tokens,     \* the tokens that were given out and have not expired
  now         \* the clock

vars == <<faults, users, merchants, txs, calls, tokens, now>>

-----------------------------------------------------------------------------
(* Rows, transactions and tokens.                                          *)

User == [id : UserIds, email : Emails, role : Roles]
Merchant == [id : UserIds, email : Emails]
Token == [sub : UserIds, email : Emails, role : Roles, exp : 0 .. MaxTime + TokenLife]

MerchantOf(u) == [id |-> u.id, email |-> u.email]

Nothing == [users |-> {}, merchants |-> {}]

(* Mistake: the email column is not UNIQUE.                                *)
UserFitsAnyway(u) == \A v \in users : v.id # u.id

(* The PRIMARY KEY and the UNIQUE email of a table.                        *)
UserFits(u) == \A v \in users : v.id # u.id /\ v.email # u.email
MerchantFits(m) == \A n \in merchants : n.id # m.id /\ n.email # m.email

FindByEmail(e) == {u \in users : u.email = e}
FindByID(id) == {u \in users : u.id = id}

(* issueToken                                                              *)
TokenFor(u) == [sub |-> u.id, email |-> u.email, role |-> u.role, exp |-> now + TokenLife]

(* RequireAuth: a token that was signed here and has not expired at t.     *)
Live(tk, t) == tk \in tokens /\ t < tk.exp

-----------------------------------------------------------------------------
(* The requests in flight.                                                 *)

Steps == {"insertUser", "insertMerchant", "commit", "findUser"}
Idle == [step |-> "idle"]
Call == [step : Steps, user : User]

At(s, step) == calls[s].step = step
Who(s) == calls[s].user

Begin(s, step, u) == calls' = [calls EXCEPT ![s] = [step |-> step, user |-> u]]
GoTo(s, step) == calls' = [calls EXCEPT ![s].step = step]
Return(s) == calls' = [calls EXCEPT ![s] = Idle]

(* Mistake: an error path returns without tx.Rollback.                     *)
RollbackForgotten(s) == UNCHANGED txs

(* tx.Rollback, whose error is dropped: the rows are gone either way.      *)
Rollback(s) == txs' = [txs EXCEPT ![s] = Nothing]

Unused == UserIds \ ({u.id : u \in users} \cup {Who(s).id : s \in {t \in Sessions : ~At(t, "idle")}})

-----------------------------------------------------------------------------
(* Register                                                                *)

Normalized(asked) == IF asked = "" THEN "MERCHANT" ELSE asked

(* Mistake: any role is stored.                                            *)
AnyRoleAllowed(role) == TRUE

isAllowedRole(role) == role \in Roles

(* A registration that asks for no role of the service, or that finds the  *)
(* email, is refused; a lookup that fails is an error.  Both change nothing.*)
Register(s, u, e, asked) ==
  /\ At(s, "idle")
  /\ u \in Unused
  /\ isAllowedRole(Normalized(asked))
  /\ FindByEmail(e) = {}
  /\ Begin(s, "insertUser", [id |-> u, email |-> e, role |-> Normalized(asked)])
  /\ UNCHANGED <<faults, users, merchants, txs, tokens, now>>

(* PostgreSQL makes an INSERT wait while an open transaction holds a row   *)
(* with the same email.                                                    *)
EmailHeld(s) ==
  \E t \in Sessions \ {s} : \E v \in txs[t].users : v.email = Who(s).email

(* Mistake: the row is stored outside of the transaction.                  *)
InsertUserOutside(s) ==
  /\ At(s, "insertUser")
  /\ \E r \in Replies :
       /\ Reply(r)
       /\ IF r = "ok" /\ UserFits(Who(s))
            THEN /\ users' = users \cup {Who(s)}
                 /\ GoTo(s, IF Who(s).role = "MERCHANT" THEN "insertMerchant" ELSE "commit")
            ELSE Return(s) /\ UNCHANGED users
  /\ UNCHANGED <<txs, merchants, tokens, now>>

(* Begin and the first INSERT.  The loser of a race is refused here.       *)
InsertUser(s) ==
  /\ At(s, "insertUser")
  /\ ~EmailHeld(s)
  /\ \E r \in Replies :
       /\ Reply(r)
       /\ IF r = "ok" /\ UserFits(Who(s))
            THEN /\ txs' = [txs EXCEPT ![s] = [users |-> {Who(s)}, merchants |-> {}]]
                 /\ GoTo(s, IF Who(s).role = "MERCHANT" THEN "insertMerchant" ELSE "commit")
            ELSE Rollback(s) /\ Return(s)
  /\ UNCHANGED <<users, merchants, tokens, now>>

InsertMerchant(s) ==
  /\ At(s, "insertMerchant")
  /\ \E r \in Replies :
       /\ Reply(r)
       /\ IF r = "ok" /\ MerchantFits(MerchantOf(Who(s)))
            THEN /\ txs' = [txs EXCEPT ![s].merchants = {MerchantOf(Who(s))}]
                 /\ GoTo(s, "commit")
            ELSE Rollback(s) /\ Return(s)
  /\ UNCHANGED <<users, merchants, tokens, now>>

(* Mistake: the error of the commit is dropped.                            *)
CommitUnchecked(s) ==
  /\ At(s, "commit")
  /\ \E r \in Replies :
       /\ Reply(r)
       /\ IF Executed(r)
            THEN /\ users' = users \cup txs[s].users
                 /\ merchants' = merchants \cup txs[s].merchants
            ELSE UNCHANGED <<users, merchants>>
  /\ tokens' = tokens \cup {TokenFor(Who(s))}
  /\ Rollback(s)
  /\ Return(s)
  /\ UNCHANGED now

(* The rows become visible; the token is given out if the answer came back.*)
Commit(s) ==
  /\ At(s, "commit")
  /\ \E r \in Replies :
       /\ Reply(r)
       /\ IF Executed(r)
            THEN /\ users' = users \cup txs[s].users
                 /\ merchants' = merchants \cup txs[s].merchants
            ELSE UNCHANGED <<users, merchants>>
       /\ tokens' = IF r = "ok" THEN tokens \cup {TokenFor(Who(s))} ELSE tokens
  /\ Rollback(s)
  /\ Return(s)
  /\ UNCHANGED now

-----------------------------------------------------------------------------
(* Login with the right password; any other changes nothing.               *)
Login(s, e) ==
  /\ At(s, "idle")
  /\ FindByEmail(e) # {}
  /\ tokens' = tokens \cup {TokenFor(u) : u \in FindByEmail(e)}
  /\ UNCHANGED <<faults, users, merchants, txs, calls, now>>

(* Refresh: the middleware looks at the token, the service at the user.    *)
Refresh(s, tk) ==
  /\ At(s, "idle")
  /\ Live(tk, now) /\ tk.role \in OpenTo("RefreshGin")
  /\ Begin(s, "findUser", [id |-> tk.sub, email |-> tk.email, role |-> tk.role])
  /\ UNCHANGED <<faults, users, merchants, txs, tokens, now>>

FindUser(s) ==
  /\ At(s, "findUser")
  /\ \E r \in Replies :
       /\ Reply(r)
       /\ tokens' = IF r = "ok" THEN tokens \cup {TokenFor(u) : u \in FindByID(Who(s).id)}
                                ELSE tokens
  /\ Return(s)
  /\ UNCHANGED <<users, merchants, txs, now>>

-----------------------------------------------------------------------------
(* A token that expires is worth nothing and no longer counted.            *)
TimePasses ==
  /\ now < MaxTime
  /\ now' = now + 1
  /\ tokens' = {tk \in tokens : Live(tk, now')}
  /\ UNCHANGED <<faults, users, merchants, txs, calls>>

(* The server stops: requests and open transactions are lost.              *)
Crash ==
  /\ CrashFault
  /\ \E s \in Sessions : ~At(s, "idle")
  /\ calls' = [s \in Sessions |-> Idle]
  /\ txs' = [s \in Sessions |-> Nothing]
  /\ UNCHANGED <<users, merchants, tokens, now>>

Init ==
  /\ faults = NoFaults
  /\ users = {} /\ merchants = {} /\ tokens = {}
  /\ txs = [s \in Sessions |-> Nothing]
  /\ calls = [s \in Sessions |-> Idle]
  /\ now = 0

Arrive(s) ==
  \/ \E u \in UserIds, e \in Emails, asked \in Asked : Register(s, u, e, asked)
  \/ \E e \in Emails : Login(s, e)
  \/ \E tk \in tokens : Refresh(s, tk)

(* The next call of a request that is being served.                        *)
Proceed(s) == InsertUser(s) \/ InsertMerchant(s) \/ Commit(s) \/ FindUser(s)

Next == (\E s \in Sessions : Arrive(s) \/ Proceed(s)) \/ TimePasses \/ Crash

Spec == Init /\ [][Next]_vars

-----------------------------------------------------------------------------
TypeOK ==
  /\ faults \in FaultsSoFar
  /\ users \subseteq User
  /\ merchants \subseteq Merchant
  /\ txs \in [Sessions -> [users : SUBSET User, merchants : SUBSET Merchant]]
  /\ calls \in [Sessions -> Call \cup {Idle}]
  /\ tokens \subseteq Token
  /\ now \in 0 .. MaxTime

(* Register looks the email up before it inserts, in another statement;    *)
(* however two registrations interleave, an email names one user.          *)
OneUserPerEmail ==
  \A u, v \in users : u.email = v.email \/ u.id = v.id => u = v

(* CreateWithMerchant: the merchants are the users of that role, each with *)
(* the id and the email of its user, whatever fails between the INSERTs.   *)
MerchantsMatchUsers ==
  merchants = {MerchantOf(u) : u \in {v \in users : v.role = "MERCHANT"}}

(* The middleware and the handlers believe the claims of a token and load  *)
(* no user: each token names a stored user and its role, and a MERCHANT's  *)
(* subject is a stored merchant.                                           *)
TokensAreBacked ==
  \A tk \in tokens :
    /\ [id |-> tk.sub, email |-> tk.email, role |-> tk.role] \in users
    /\ tk.role = "MERCHANT" => [id |-> tk.sub, email |-> tk.email] \in merchants

(* The server is wired to NewRouterCodegen: by the prefix of the path it   *)
(* answers the holder of each token, and someone without one, what the     *)
(* groups of NewRouter answer.                                             *)
RoutersAgree ==
  \A id \in {tk.role : tk \in tokens} \cup {NoOne} :
    {a \in CodegenAnswers : a[3] = id} = {a \in RouterAnswers : a[3] = id}
=============================================================================
