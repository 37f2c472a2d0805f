------------------------------- MODULE Accounts -------------------------------
(***************************************************************************)
(* Accounts, logins and what a token opens: service/user.go and dao/user.go *)
(* behind router/auth.go, and middleware/auth.go in front of the routes of  *)
(* router/router.go.  A step is one MySQL statement, or the check of a      *)
(* token.                                                                   *)
(*                                                                         *)
(* Calls are one-shot.  A password stands for its bcrypt hash, a token for  *)
(* its signed claims; a header without a token this server signed is        *)
(* NoToken.  Names and passwords that Register refuses for their length are *)
(* left out.  Administrators' accounts are inserted, and accounts deleted,  *)
(* without the service (as smoke_test.go does); ids are never given twice.  *)
(***************************************************************************)
EXTENDS Integers, FiniteSets

CONSTANTS
  Calls,      \* HTTP calls, each handled by one goroutine
  Names,      \* user names
  Passwords,  \* passwords
  MaxOutside, \* accounts inserted or deleted without the service
  MaxErrors,  \* MySQL errors in a behaviour
  NoOp,       \* the operation of a call that has not arrived
  NoToken     \* no token, or one with a bad signature

ASSUME AccountsAssumption == MaxOutside \in Nat /\ MaxErrors \in Nat

VARIABLES
  accounts,  \* rows of table users
  lastId,    \* its AUTO_INCREMENT
  tokens,    \* tokens issued
  expired,   \* tokens whose exp has passed
  pc,        \* where a call is, or how it was answered
  op,        \* what a call asks for
  outside,   \* writes of table users without the service so far
  errors     \* MySQL errors so far

tableVars == <<accounts, lastId>>
tokenVars == <<tokens, expired>>
vars == <<tableVars, tokenVars, pc, op, outside, errors>>

Account == [id : Nat, name : Names, password : Passwords, role : {"USER", "ADMIN"}]

\* The claims sub and role; `login` is the call it was issued to.
Token == [sub : Nat, role : {"USER", "ADMIN"}, login : Calls]

\* Routes without Auth, behind Auth, behind Auth and RequireAdmin
Routes == {"public", "me", "admin"}

SignOp == [kind : {"register", "login"}, name : Names, password : Passwords]
VisitOp(t) == [kind : {"visit"}, route : Routes, token : t]

InProgress == {"lookup", "insert", "find", "auth", "profile"}
\* 201, 200 with a token, 200, 401, 403, 404, 409, 500
Answers == {"created", "token", "served", "unauthorized", "forbidden",
            "not_found", "conflict", "error"}

Init ==
  /\ accounts = {}
  /\ lastId = 0
  /\ tokens = {}
  /\ expired = {}
  /\ pc = [c \in Calls |-> "idle"]
  /\ op = [c \in Calls |-> NoOp]
  /\ outside = 0
  /\ errors = 0

Goto(c, l) == pc' = [pc EXCEPT ![c] = l]

\* The statement at hand fails and the call answers 500.
Fail(c) == errors < MaxErrors /\ errors' = errors + 1 /\ Goto(c, "error")

Entry == [register |-> "lookup", login |-> "find", visit |-> "auth"]

Arrive(c) ==
  /\ pc[c] = "idle"
  /\ \E p \in SignOp \cup VisitOp(tokens \cup {NoToken}) :
       op' = [op EXCEPT ![c] = p] /\ Goto(c, Entry[p.kind])
  /\ UNCHANGED <<tableVars, tokenVars, outside, errors>>

-----------------------------------------------------------------------------
(* UserService.Register *)

Taken(n) == \E x \in accounts : x.name = n

\* Faulty variant of Lookup: a name that is not found is an error
LookupInverted(c) ==
  /\ pc[c] = "lookup"
  /\ Goto(c, IF Taken(op[c].name) THEN "conflict" ELSE "error")
  /\ UNCHANGED <<tableVars, tokenVars, op, outside, errors>>

\* FindUserByUsername
Lookup(c) ==
  /\ pc[c] = "lookup"
  /\ \/ Goto(c, IF Taken(op[c].name) THEN "conflict" ELSE "insert") /\ UNCHANGED errors
     \/ Fail(c)
  /\ UNCHANGED <<tableVars, tokenVars, op, outside>>

Row(n, w, role) == [id |-> lastId + 1, name |-> n, password |-> w, role |-> role]

\* Faulty variants of CreateUser: no unique index, and the row is saved over
\* one with the same name
CreateDuplicate(n, w, role) ==
  accounts' = accounts \cup {Row(n, w, role)} /\ lastId' = lastId + 1

CreateOver(n, w, role) ==
  /\ accounts' = IF Taken(n)
                   THEN {IF x.name = n THEN [x EXCEPT !.password = w] ELSE x : x \in accounts}
                   ELSE accounts \cup {Row(n, w, role)}
  /\ lastId' = lastId + 1

\* INSERT, which the unique index on username lets through
CreateUser(n, w, role) ==
  /\ ~Taken(n)
  /\ accounts' = accounts \cup {Row(n, w, role)}
  /\ lastId' = lastId + 1

\* Created; refused by the index, an error the service does not look into;
\* failed; or committed with its reply lost.
Insert(c) ==
  LET Create == CreateUser(op[c].name, op[c].password, "USER")
  IN
  /\ pc[c] = "insert"
  /\ \/ Create /\ Goto(c, "created") /\ UNCHANGED errors
     \/ Taken(op[c].name) /\ Goto(c, "error") /\ UNCHANGED <<tableVars, errors>>
     \/ Fail(c) /\ UNCHANGED tableVars
     \/ Fail(c) /\ Create
  /\ UNCHANGED <<tokenVars, op, outside>>

-----------------------------------------------------------------------------
(* UserService.Login and AuthHandler.Login *)

Known(p) == {x \in accounts : x.name = p.name /\ x.password = p.password}

\* Faulty variant of Login: the zero User of a failed lookup gets a token
LoginUnchecked(c) ==
  LET p == op[c]
      signed == IF Taken(p.name) THEN {[sub |-> x.id, role |-> x.role, login |-> c] : x \in Known(p)}
                ELSE {[sub |-> 0, role |-> "", login |-> c]}
  IN
  /\ pc[c] = "find"
  /\ tokens' = tokens \cup signed
  /\ Goto(c, IF signed = {} THEN "unauthorized" ELSE "token")
  /\ UNCHANGED <<tableVars, expired, op, outside, errors>>

\* FindUserByUsername and the comparison of the hash; then the token is signed.
Login(c) ==
  /\ pc[c] = "find"
  /\ \/ \E x \in Known(op[c]) :
          /\ tokens' = tokens \cup {[sub |-> x.id, role |-> x.role, login |-> c]}
          /\ Goto(c, "token")
          /\ UNCHANGED errors
     \/ Known(op[c]) = {} /\ Goto(c, "unauthorized") /\ UNCHANGED <<tokens, errors>>
     \/ Fail(c) /\ UNCHANGED tokens
  /\ UNCHANGED <<tableVars, expired, op, outside>>

-----------------------------------------------------------------------------
(* A request with a token *)

\* Faulty variant of Authorize: the routes of administrators without RequireAdmin
AuthorizeAnyone(c) ==
  LET p == op[c]
      valid == p.token \in tokens \ expired
  IN
  /\ pc[c] = "auth"
  /\ Goto(c, IF p.route = "public" THEN "served"
             ELSE IF ~valid THEN "unauthorized"
             ELSE IF p.route = "me" THEN "profile" ELSE "served")
  /\ UNCHANGED <<tableVars, tokenVars, op, outside, errors>>

\* Auth checks signature and exp; RequireAdmin reads the role in the claims,
\* not the account.
Authorize(c) ==
  LET p == op[c]
      valid == p.token \in tokens \ expired
  IN
  /\ pc[c] = "auth"
  /\ \/ p.route = "public" /\ Goto(c, "served")
     \/ p.route # "public" /\ ~valid /\ Goto(c, "unauthorized")
     \/ p.route = "me" /\ valid /\ Goto(c, "profile")
     \/ p.route = "admin" /\ valid /\ p.token.role = "ADMIN" /\ Goto(c, "served")
     \/ p.route = "admin" /\ valid /\ p.token.role # "ADMIN" /\ Goto(c, "forbidden")
  /\ UNCHANGED <<tableVars, tokenVars, op, outside, errors>>

\* AuthHandler.Me: FindUserByID of the token's subject
Me(c) ==
  /\ pc[c] = "profile"
  /\ \/ /\ Goto(c, IF \E x \in accounts : x.id = op[c].token.sub
                   THEN "served" ELSE "not_found")
        /\ UNCHANGED errors
     \/ Fail(c)
  /\ UNCHANGED <<tableVars, tokenVars, op, outside>>

Handle(c) == Lookup(c) \/ Insert(c) \/ Login(c) \/ Authorize(c) \/ Me(c)

-----------------------------------------------------------------------------
(* Time, and writes without the service *)

\* 24 hours after its login
Expire(t) ==
  /\ t \notin expired
  /\ expired' = expired \cup {t}
  /\ UNCHANGED <<tableVars, tokens, pc, op, outside, errors>>

Outside ==
  /\ outside < MaxOutside
  /\ outside' = outside + 1
  /\ \/ \E n \in Names, w \in Passwords : CreateUser(n, w, "ADMIN")
     \/ \E x \in accounts : accounts' = accounts \ {x} /\ UNCHANGED lastId
  /\ UNCHANGED <<tokenVars, pc, op, errors>>

Next ==
  \/ \E c \in Calls : Arrive(c) \/ Handle(c)
  \/ \E t \in tokens : Expire(t)
  \/ Outside

\* A handler goes on until it has answered.
Fairness == \A c \in Calls : WF_vars(Handle(c))

Spec == Init /\ [][Next]_vars /\ Fairness

-----------------------------------------------------------------------------
(* Properties *)

TypeOK ==
  /\ accounts \in SUBSET Account
  /\ lastId \in Nat
  /\ tokens \in SUBSET Token
  /\ expired \in SUBSET tokens
  /\ pc \in [Calls -> {"idle"} \cup InProgress \cup Answers]
  /\ op \in [Calls -> SignOp \cup VisitOp(tokens \cup {NoToken}) \cup {NoOp}]
  /\ outside \in 0 .. MaxOutside
  /\ errors \in 0 .. MaxErrors

\* However many registrations pass the lookup together, a name and an id have
\* one account (the index behind UserService.Register).
OneAccountPerName ==
  \A x, y \in accounts : x.name = y.name \/ x.id = y.id => x = y

\* An account stays with those who know its password: who was told it is
\* created finds it with the password given, and a token stands for the account
\* whose name and password its login gave, through later registrations,
\* deletions and insertions of that name.
AccountsStayTheirs ==
  /\ \A c \in Calls :
       pc[c] = "created" /\ outside = 0 => Known(op[c]) # {}
  /\ \A t \in tokens, x \in accounts :
       x.id = t.sub => x \in Known(op[t.login])

\* Nobody who only registered and logged in is served a route of
\* administrators, although the role is read from the token alone; a token of
\* an administrator goes on working after the account is deleted.
AdminRoutesNeedAppointment ==
  \A c \in Calls :
    pc[c] = "served" /\ op[c].route = "admin" =>
      /\ outside > 0
      /\ \A x \in accounts : x.id = op[c].token.sub => x.role = "ADMIN"

\* Of several registrations of one name that race, one gets it: a name that
\* somebody registers is taken at some time, unless MySQL fails.
SomebodyGetsTheName ==
  \A c \in Calls, n \in Names :
    pc[c] = "lookup" /\ op[c].name = n ~> Taken(n) \/ errors > 0

=============================================================================
